---- MODULE Spec2Model ----
(***************************************************************************)
(* Dual-backend session persistence of Open-ChatPDF.                       *)
(*                                                                         *)
(*   src/utils/storage.ts   the embedded store (localStorage + IndexedDB)  *)
(*                          and the directory codec (File System Access)   *)
(*   src/unnamed/part_001   App: the React state, the init effect, the     *)
(*                          auto-save effect and the handlers              *)
(*   src/components/SettingsModal.tsx  the callers of the mode switch      *)
(*                                                                         *)
(* Modelling conventions.                                                  *)
(*  - A handler is one action.  A handler reads `settings`, `sessions`     *)
(*    and `currentSessionId` from the closure of the render in which it    *)
(*    was created, so inside an action these are the UNPRIMED variables,   *)
(*    also after a setState call of the same handler; functional updates   *)
(*    (setSessions(prev => ...)) and refs (dirHandleRef.current) see the   *)
(*    latest value.  Helpers that a handler calls take the closure's       *)
(*    storageType as the parameter `cst`.                                  *)
(*  - State updates issued without an intervening await are batched        *)
(*    (React 18+ createRoot); the auto-save effect of part_001:168-172     *)
(*    runs after the handler's last render and is part of every action.    *)
(*  - Fire-and-forget writes complete inside the action that issues them;  *)
(*    SpecOverlap runs saveSessionToDirectory calls file step by file step.*)
(*  - A directory operation succeeds when the handle's permission is       *)
(*    granted and raises NotAllowedError otherwise.                        *)
(*  - undefined / null / absent file are the values NoFile, NoName, NoDir, *)
(*    NoId, NoHandle; a File is identified with its name.                  *)
(*  - uuidv4() returns an id that no list and no store holds.              *)
(*                                                                         *)
(* Spec is the whole application, SpecEmbedded the application while it    *)
(* stays in browser mode, SpecFaults the application with loads (of the    *)
(* directory, of a document of IndexedDB) that may raise,                  *)
(* SpecCodec the directory codec on its own, SpecOverlap                   *)
(* saveSessionToDirectory calls that are in flight together, SpecChat the  *)
(* application with the chat handlers (send, edit, regenerate, summary),   *)
(* SpecWriteFaults directory writes of which any step may raise, SpecQueue *)
(* the chat handlers with React's queue of setSessions updaters,           *)
(* SpecDeleteRace a delete while saves of the directory are in flight,     *)
(* SpecDeleteAwait the application with handleDeleteSession split at its   *)
(* await, SpecTwoDirs the application with two directories to pick from.   *)
(***************************************************************************)
EXTENDS Integers, Sequences, FiniteSets, TLC

(***************************************************************************)
(* Bounds                                                                  *)
(***************************************************************************)
\* number of session ids that exist at one time
MaxIds == 2
\* messages per session
MaxMsgs == 1
\* values of Date.now()
MaxClock == 1
\* entries of an imported backup array
MaxImport == 2
\* saveSessionToDirectory calls in flight together
MaxWrites == 2
\* messages of a session in the chat handlers
MaxChat == 4
\* setSessions updaters queued together, and changes of the list counted
MaxQueue == 4
MaxVersion == 6
\* the handleDeleteSession calls of a behaviour
MaxDeletes == 1

NoId == 0
Ids == 1..MaxIds

NoFile == "none"
Files == {"x.pdf"}
NoName == "undefined"
NoDir == "undefined"
NoHandle == "null"
Dirs == {"D1", "D2"}
\* the directory the user picks where one directory is enough
FirstDir == {"D1"}
Contents == {"hello"}
NewTitle == "new chat"

(***************************************************************************)
(* Data model (part_002: ChatSession, AppSettings)                         *)
(***************************************************************************)
ChatSession(id, title, messages, pdfName, file, summary, lastUpdated) ==
    [id |-> id, title |-> title, messages |-> messages, pdfName |-> pdfName,
     file |-> file, summary |-> summary, lastUpdated |-> lastUpdated]

AppSettings(storageType, localDirectoryName, apiKey) ==
    [storageType |-> storageType, localDirectoryName |-> localDirectoryName,
     apiKey |-> apiKey]

DEFAULT_SETTINGS == AppSettings("browser", NoDir, "")

\* const { file, ...rest } = s : the session without its File object
StripFile(s) == [s EXCEPT !.file = NoFile]

StripAll(list) == [i \in 1..Len(list) |-> StripFile(list[i])]

IdsOf(list) == {list[i].id : i \in 1..Len(list)}

RECURSIVE SelectSeqBy(_, _)
\* list.filter(s => s.id \in keep), order preserved
SelectSeqBy(list, keep) ==
    IF list = <<>> THEN <<>>
    ELSE IF Head(list).id \in keep
         THEN <<Head(list)>> \o SelectSeqBy(Tail(list), keep)
         ELSE SelectSeqBy(Tail(list), keep)

\* list.find(s => s.id === id): the first match (a sequence of length <= 1)
Find(list, id) ==
    LET hits == {i \in 1..Len(list) : list[i].id = id}
    IN IF hits = {} THEN <<>>
       ELSE <<list[CHOOSE i \in hits : \A j \in hits : i <= j]>>

\* prev.map(s => s.id === id ? new : s)
Replace(list, id, new) ==
    [i \in 1..Len(list) |-> IF list[i].id = id THEN new ELSE list[i]]

(***************************************************************************)
(* Directory tree:                                                         *)
(*   settingsJson  <<>> (no settings.json) or <<settings>>                 *)
(*   hasSessions   whether sessions/ exists                                *)
(*   folders       folder name -> [chat, bad, pdf]                         *)
(*      chat  <<>> or <<metadata>> (the parsed chat.json)                  *)
(*      bad   chat.json exists and does not parse                          *)
(*      pdf   the content of document.pdf, or NoFile                       *)
(***************************************************************************)
NoFolders == [i \in {} |-> 0]
EmptyTree == [settingsJson |-> <<>>, hasSessions |-> FALSE, folders |-> NoFolders]
Folder(chat, bad, pdf) == [chat |-> chat, bad |-> bad, pdf |-> pdf]

\* all enumeration orders of a finite set
RECURSIVE Orders(_)
Orders(S) ==
    IF S = {} THEN {<<>>}
    ELSE UNION {{<<x>> \o o : o \in Orders(S \ {x})} : x \in S}

RECURSIVE InsertDesc(_, _)
\* insert s behind every element whose lastUpdated is >= s.lastUpdated
InsertDesc(sorted, s) ==
    IF sorted = <<>> THEN <<s>>
    ELSE IF Head(sorted).lastUpdated >= s.lastUpdated
         THEN <<Head(sorted)>> \o InsertDesc(Tail(sorted), s)
         ELSE <<s>> \o sorted

\* loadFromDirectory without its final sort
SortDescOmitted(list) == list

RECURSIVE SortDesc(_)
\* sessions.sort((a, b) => b.lastUpdated - a.lastUpdated), a stable sort
SortDesc(list) ==
    IF list = <<>> THEN <<>>
    ELSE InsertDesc(SortDesc(SubSeq(list, 1, Len(list) - 1)), list[Len(list)])

\* ReadFolder without the inner try/catch's skip: a folder whose chat.json
\* is missing or unparsable yields a blank session
ReadFolderNoSkip(name, f) ==
    IF f.bad \/ f.chat = <<>>
    THEN <<[id |-> name, title |-> NewTitle, messages |-> <<>>, pdfName |-> NoName,
            file |-> f.pdf, summary |-> "", lastUpdated |-> 0]>>
    ELSE <<[f.chat[1] EXCEPT !.id = name, !.file = f.pdf]>>

\* ReadFolder that keeps the id found in chat.json
ReadFolderEmbeddedId(name, f) ==
    IF f.bad \/ f.chat = <<>> THEN <<>>
    ELSE <<[f.chat[1] EXCEPT !.file = f.pdf]>>

\* the body of the for-await loop for one entry: the session pushed, if any
ReadFolder(name, f) ==
    IF f.bad \/ f.chat = <<>> THEN <<>>
    ELSE <<[f.chat[1] EXCEPT !.id = name, !.file = f.pdf]>>

RECURSIVE ReadFolders(_, _)
ReadFolders(folders, order) ==
    IF order = <<>> THEN <<>>
    ELSE ReadFolder(Head(order), folders[Head(order)])
         \o ReadFolders(folders, Tail(order))

\* loadFromDirectory with permission: the sessions returned when the folders
\* are enumerated in `order`
LoadSessions(tree, order) == SortDesc(ReadFolders(tree.folders, order))

\* loadFromDirectory: getDirectoryHandle('sessions', {create: true})
LoadTouch(tree) == [tree EXCEPT !.hasSessions = TRUE]

\* saveSessionToDirectory with permission
saveSessionToDirectory(tree, session) ==
    LET old == IF session.id \in DOMAIN tree.folders
               THEN tree.folders[session.id].pdf ELSE NoFile
        new == Folder(<<StripFile(session)>>, FALSE,
                      IF session.file # NoFile THEN session.file ELSE old)
    IN [tree EXCEPT !.hasSessions = TRUE,
                    !.folders = [n \in DOMAIN tree.folders \cup {session.id} |->
                                   IF n = session.id THEN new ELSE tree.folders[n]]]

\* saveSessionToDirectory, its steps one by one.
\* getDirectoryHandle('sessions') and getDirectoryHandle(session.id), both
\* with { create: true }
saveOpenFolder(tree, session) ==
    [tree EXCEPT !.hasSessions = TRUE,
                 !.folders = [n \in DOMAIN tree.folders \cup {session.id} |->
                                IF n \in DOMAIN tree.folders THEN tree.folders[n]
                                ELSE Folder(<<>>, FALSE, NoFile)]]

\* chat.json: createWritable, write(JSON.stringify(metaData)), close; the
\* file is replaced as a whole when the stream is closed
saveWriteChat(tree, session) ==
    [tree EXCEPT !.folders[session.id].chat = <<StripFile(session)>>,
                 !.folders[session.id].bad = FALSE]

\* document.pdf: createWritable, write(file), close
saveWritePdf(tree, session) ==
    [tree EXCEPT !.folders[session.id].pdf = session.file]

\* deleteSessionFromDirectory with removeEntry(sessionId) not recursive: the
\* call fails on a folder that holds files, and the catch swallows it
deleteSessionNotRecursive(tree, sessionId) ==
    IF tree.hasSessions /\ sessionId \in DOMAIN tree.folders
       /\ tree.folders[sessionId].chat = <<>> /\ ~tree.folders[sessionId].bad
       /\ tree.folders[sessionId].pdf = NoFile
    THEN [tree EXCEPT !.folders = [n \in DOMAIN tree.folders \ {sessionId} |->
                                     tree.folders[n]]]
    ELSE tree

\* deleteSessionFromDirectory that obtains sessions/ with { create: true }
deleteSessionCreatesDir(tree, sessionId) ==
    [tree EXCEPT !.hasSessions = TRUE,
                 !.folders = [n \in DOMAIN tree.folders \ {sessionId} |->
                                tree.folders[n]]]

\* deleteSessionFromDirectory with permission
deleteSessionFromDirectory(tree, sessionId) ==
    IF tree.hasSessions /\ sessionId \in DOMAIN tree.folders
    THEN [tree EXCEPT !.folders = [n \in DOMAIN tree.folders \ {sessionId} |->
                                     tree.folders[n]]]
    ELSE tree

\* saveSettingsToDirectory with permission
saveSettingsToDirectory(tree, newSettings) ==
    [tree EXCEPT !.settingsJson = <<newSettings>>]

(***************************************************************************)
(* State                                                                   *)
(***************************************************************************)
VARIABLES
    phase,              \* "boot": mounted, init effect not yet run; "running"
    settings,           \* useState settings                 part_001:35
    sessions,           \* useState sessions                 part_001:36
    currentSessionId,   \* useState currentSessionId         part_001:37
    dirHandleRef,       \* useRef dirHandleRef.current       part_001:40
    needsPermission,    \* useState needsPermission          part_001:41
    currentFile,        \* useState currentFile              part_001:44
    lsSettings,         \* localStorage 'ai-pdf-settings': <<>> or <<settings>>
    lsSessions,         \* localStorage 'ai-pdf-sessions' (absent reads as [])
    lsLastId,           \* localStorage 'ai-pdf-last-session-id'
    fileDB,             \* IndexedDB store 'files': id -> File or NoFile
    handleDB,           \* IndexedDB store 'handles', key 'root_dir'
    disk,               \* directory -> tree
    perm,               \* directory -> "granted" | "prompt"
    now,                \* Date.now()
    lastOp,             \* history: the operation that ran last
    codec,              \* history of the codec harness: [saved, loaded, order]
    writes,             \* saveSessionToDirectory calls of SpecOverlap, in the
                        \* order they were issued: [session, pc, with, raised]
    pending,            \* SpecQueue: the setSessions updaters React has queued
                        \* and not yet applied, the continuations awaiting a
                        \* promise, the stream, and the saves issued so far
    deleting            \* the handleDeleteSession calls, in the order of the
                        \* clicks: [id, pc, sessions, cur, cst, after], with
                        \* the closure's sessions, currentSessionId and
                        \* storageType, and the saves issued before the click

vars == <<phase, settings, sessions, currentSessionId, dirHandleRef,
          needsPermission, currentFile, lsSettings, lsSessions, lsLastId,
          fileDB, handleDB, disk, perm, now, lastOp, codec, writes, pending,
          deleting>>

\* nothing queued, no stream, no save issued; version counts the changes
\* applied to the session list
NoStream == [state |-> "none", id |-> 0, cst |-> "", history |-> <<>>]
NoPending ==
    [updaters |-> <<>>, micro |-> <<>>, stream |-> NoStream, version |-> 0,
     issued |-> <<>>]
NoCodec == [saved |-> <<>>, loaded |-> <<>>, order |-> <<>>]
NoPrev == [dir |-> NoHandle, folders |-> NoFolders]
\* no verifyPermission call in the operation
NoCheck == [query |-> "none", request |-> "none", granted |-> FALSE,
            threw |-> FALSE]
Op(op, id, ok, why) ==
    [op |-> op, id |-> id, ok |-> ok, why |-> why, prev |-> NoPrev,
     check |-> NoCheck]

Init ==
    /\ phase = "boot"
    /\ settings = DEFAULT_SETTINGS
    /\ sessions = <<>>
    /\ currentSessionId = NoId
    /\ dirHandleRef = NoHandle
    /\ needsPermission = FALSE
    /\ currentFile = NoFile
    /\ lsSettings = <<>>
    /\ lsSessions = <<>>
    /\ lsLastId = NoId
    /\ fileDB = [i \in Ids |-> NoFile]
    /\ handleDB = NoHandle
    /\ disk = [d \in Dirs |-> EmptyTree]
    /\ perm = [d \in Dirs |-> "prompt"]
    /\ now = 0
    /\ lastOp = Op("mount", NoId, TRUE, "")
    /\ codec = NoCodec
    /\ writes = <<>>
    /\ pending = NoPending
    /\ deleting = <<>>

(***************************************************************************)
(* The part of the state a handler's helpers work on                       *)
(***************************************************************************)
Cur ==
    [sessions |-> sessions, cur |-> currentSessionId, file |-> currentFile,
     lastId |-> lsLastId, disk |-> disk, fdb |-> fileDB, perm |-> perm]

Adopt(b) ==
    /\ sessions' = b.sessions
    /\ currentSessionId' = b.cur
    /\ currentFile' = b.file
    /\ lsLastId' = b.lastId
    /\ disk' = b.disk
    /\ fileDB' = b.fdb
    /\ perm' = b.perm

\* no auto-save effect: the stored list is written by nothing
AutoSaveSkipped(storageType) == lsSessions' = lsSessions

\* the auto-save effect, part_001:168-172, after the action's last render
AutoSaveFor(storageType) ==
    lsSessions' = IF storageType = "browser"
                  THEN StripAll(sessions') ELSE lsSessions

AutoSave == AutoSaveFor(settings'.storageType)

\* persistSession without its browser branch
persistSessionLocalOnly(b, cst, ref, session) ==
    IF cst = "local" /\ ref # NoHandle /\ b.perm[ref] = "granted"
    THEN [b EXCEPT !.disk[ref] = saveSessionToDirectory(@, session)]
    ELSE b

\* persistSession, part_001:147-158; cst is the closure's storageType, ref
\* is dirHandleRef.current at the call
persistSession(b, cst, ref, session) ==
    IF cst = "local" /\ ref # NoHandle
    THEN IF b.perm[ref] = "granted"
         THEN [b EXCEPT !.disk[ref] = saveSessionToDirectory(@, session)]
         ELSE b
    ELSE IF session.file # NoFile
         THEN [b EXCEPT !.fdb[session.id] = session.file]
         ELSE b

\* createNewSession, part_001:256-277
createNewSession(b, cst, ref, id, time) ==
    LET newSession == ChatSession(id, NewTitle, <<>>, NoName, NoFile, "", time)
        b1 == [b EXCEPT !.sessions = <<newSession>> \o @,
                        !.cur = id,
                        !.file = NoFile]
    IN IF cst = "local" THEN persistSession(b1, cst, ref, newSession) ELSE b1

\* handleSelectSession that counts the selection as an update of the session
handleSelectSessionTouches(b, cst, id, sessionList) ==
    [b EXCEPT !.cur = id, !.lastId = id,
              !.file = IF Find(sessionList, id) = <<>> THEN NoFile
                       ELSE Find(sessionList, id)[1].file,
              !.sessions = [i \in 1..Len(@) |->
                  IF @[i].id = id THEN [@[i] EXCEPT !.lastUpdated = @ + 1]
                  ELSE @[i]]]

\* handleSelectSession, part_001:279-310
handleSelectSession(b, cst, id, sessionList) ==
    LET b1 == [b EXCEPT !.cur = id, !.lastId = id]
        hit == Find(sessionList, id)
    IN IF hit = <<>> THEN b1
       ELSE IF hit[1].file # NoFile THEN [b1 EXCEPT !.file = hit[1].file]
       ELSE IF hit[1].pdfName # NoName
            THEN IF cst = "browser" /\ b.fdb[id] # NoFile
                 THEN [b1 EXCEPT
                         !.file = b.fdb[id],
                         !.sessions = [i \in 1..Len(@) |->
                             IF @[i].id = id THEN [@[i] EXCEPT !.file = b.fdb[id]]
                             ELSE @[i]]]
                 ELSE [b1 EXCEPT !.file = NoFile]
       ELSE [b1 EXCEPT !.file = NoFile]

\* SelectFirstOrCreate that leaves an emptied list empty
SelectFirstNoCreate(b, cst, ref, list, id, time) ==
    IF Len(list) > 0 THEN handleSelectSession(b, cst, list[1].id, list)
    ELSE [b EXCEPT !.cur = NoId, !.file = NoFile]

\* "select the first session, or create one": part_001:137-141, 538-539,
\* 575-579, 612-616
SelectFirstOrCreate(b, cst, ref, list, id, time) ==
    IF Len(list) > 0 THEN handleSelectSession(b, cst, list[1].id, list)
    ELSE createNewSession(b, cst, ref, id, time)

\* the ids some list or store holds
InUse ==
    IdsOf(sessions) \cup IdsOf(lsSessions) \cup {i \in Ids : fileDB[i] # NoFile}
    \cup UNION {DOMAIN disk[d].folders : d \in Dirs}
    \cup ({lsLastId, currentSessionId} \ {NoId})

\* uuidv4(), part_001:258: an id that nothing holds (the least one, ids being
\* interchangeable); MaxIds + 1 when every id of the model is in use
nextId ==
    IF Ids \ InUse = {} THEN MaxIds + 1
    ELSE CHOOSE i \in Ids \ InUse : \A j \in Ids \ InUse : i <= j

\* whether the step draws a uuid
Draws(list) == Len(list) = 0
CanDraw == nextId <= MaxIds

\* queryPermission answers from the host's permission state ("ok") or raises
Queries == {"ok", "error"}
\* requestPermission yields granted, yields another state, or raises
Answers == {"granted", "denied", "error"}

\* verifyPermission without its try/catch
verifyPermissionNoCatch(p, handle, readWrite, query, answer) ==
    IF query = "error"
    THEN [granted |-> FALSE, asked |-> FALSE, threw |-> TRUE]
    ELSE IF p[handle] = "granted"
    THEN [granted |-> TRUE, asked |-> FALSE, threw |-> FALSE]
    ELSE [granted |-> answer = "granted", asked |-> TRUE,
          threw |-> answer = "error"]

\* verifyPermission, storage.ts:124-139: what it returns (granted), whether
\* it called requestPermission (asked) and whether it raised (threw)
verifyPermission(p, handle, readWrite, query, answer) ==
    IF query = "error"
    THEN [granted |-> FALSE, asked |-> FALSE, threw |-> FALSE]
    ELSE IF p[handle] = "granted"
    THEN [granted |-> TRUE, asked |-> FALSE, threw |-> FALSE]
    ELSE [granted |-> answer = "granted", asked |-> TRUE, threw |-> FALSE]

\* the host's permission state after the call
PermAfter(p, handle, query, answer) ==
    IF query # "error" /\ p[handle] # "granted" /\ answer = "granted"
    THEN [p EXCEPT ![handle] = "granted"] ELSE p

\* history: the call's inputs and its outcome
Check(p, handle, query, answer, v) ==
    [query |-> IF query = "error" THEN "error" ELSE p[handle],
     request |-> IF v.asked THEN answer ELSE "none",
     granted |-> v.granted, threw |-> v.threw]

\* loadFromDirectory may raise at directory level (sessions/ cannot be
\* obtained or enumerated), storage.ts:191-194
IO == {"ok", "fails"}

\* the caller's state after a load that raised, with the list reset before
\* the load
loadFailedListReset(b) == [b EXCEPT !.sessions = <<>>, !.cur = NoId]

\* the caller's state after a load that raised: the catch blocks of
\* part_001:142-144 and 583-594 touch no state
loadFailed(b) == b

\* reloadFromDirectory without setNeedsPermission(false)
reloadKeepsFlag(b, cst, handle, prevSettings, prevNeeds, order, id, time, io) ==
    IF b.perm[handle] # "granted" \/ io = "fails"
    THEN [b |-> loadFailed(b), settings |-> prevSettings, needs |-> prevNeeds,
          ok |-> FALSE]
    ELSE LET tree == b.disk[handle]
             fsSessions == LoadSessions(tree, order)
             b1 == [b EXCEPT !.disk[handle] = LoadTouch(@), !.sessions = fsSessions]
         IN [b |-> SelectFirstOrCreate(b1, cst, handle, fsSessions, id, time),
             settings |->
                IF tree.settingsJson # <<>>
                THEN [tree.settingsJson[1] EXCEPT !.storageType = "local",
                                                  !.localDirectoryName = handle]
                ELSE [prevSettings EXCEPT !.localDirectoryName = handle],
             needs |-> prevNeeds,
             ok |-> TRUE]

\* reloadFromDirectory, part_001:116-145; prevSettings is the latest settings
\* state, order the enumeration order of sessions/
reloadFromDirectory(b, cst, handle, prevSettings, prevNeeds, order, id, time, io) ==
    IF b.perm[handle] # "granted" \/ io = "fails"
    THEN [b |-> loadFailed(b), settings |-> prevSettings, needs |-> prevNeeds,
          ok |-> FALSE]
    ELSE LET tree == b.disk[handle]
             fsSessions == LoadSessions(tree, order)
             b1 == [b EXCEPT !.disk[handle] = LoadTouch(@), !.sessions = fsSessions]
         IN [b |-> SelectFirstOrCreate(b1, cst, handle, fsSessions, id, time),
             settings |->
                IF tree.settingsJson # <<>>
                THEN [tree.settingsJson[1] EXCEPT !.storageType = "local",
                                                  !.localDirectoryName = handle]
                ELSE [prevSettings EXCEPT !.localDirectoryName = handle],
             needs |-> FALSE,
             ok |-> TRUE]

(***************************************************************************)
(* Startup: the init effect, part_001:56-103.  Its helpers are those of    *)
(* the first render, whose settings are DEFAULT_SETTINGS; the auto-save    *)
(* effect of the first render stores [] before any await of init returns.  *)
(***************************************************************************)
\* the settings of a startup whose handle has no permission, with an
\* automatic fallback to browser mode
deniedSettingsFallBack(initialSettings, handle) ==
    [initialSettings EXCEPT !.storageType = "browser"]

\* the settings of a startup whose handle has no permission, part_001:79-80
deniedSettings(initialSettings, handle) ==
    [initialSettings EXCEPT !.localDirectoryName = handle]

InitLocal(initialSettings, idb, query, answer, io) ==
    IF idb = "ok" /\ handleDB # NoHandle
    THEN LET handle == handleDB
             v == verifyPermission(perm, handle, FALSE, query, answer)
             hasPerm == v.granted
             check == Check(perm, handle, query, answer, v)
             b0 == [Cur EXCEPT !.perm = PermAfter(perm, handle, query, answer)]
         IN /\ dirHandleRef' = handle
            /\ IF hasPerm
               THEN \E order \in Orders(DOMAIN disk[handle].folders) :
                      LET r == reloadFromDirectory(b0, DEFAULT_SETTINGS.storageType,
                                   handle, initialSettings, FALSE, order, nextId, now,
                                   io)
                          fs == LoadSessions(disk[handle], order)
                      IN /\ (r.ok /\ Draws(fs)) => CanDraw
                         /\ Adopt(r.b)
                         /\ settings' = r.settings
                         /\ needsPermission' = r.needs
                         /\ lastOp' = [Op("init", NoId, r.ok,
                                           IF r.ok THEN "loaded" ELSE "load-failed")
                                          EXCEPT !.check = check]
               ELSE /\ Adopt(b0)
                    /\ settings' = deniedSettings(initialSettings, handle)
                    /\ needsPermission' = TRUE
                    /\ lastOp' = [Op("init", NoId, TRUE, "needs-permission")
                                     EXCEPT !.check = check]
            /\ lsSessions' = <<>>
    ELSE /\ settings' = initialSettings
         /\ lsSessions' = <<>>
         /\ lastOp' = Op("init", NoId, TRUE, "no-handle")
         /\ UNCHANGED <<sessions, currentSessionId, currentFile, lsLastId, disk,
                        fileDB, perm, dirHandleRef, needsPermission>>

\* InitBrowser that does not look at 'ai-pdf-last-session-id'
InitBrowserSelectsFirst(initialSettings) ==
    LET loadedSessions == lsSessions
        b1 == [Cur EXCEPT !.sessions = loadedSessions]
        b2 == IF Len(loadedSessions) = 0
              THEN createNewSession(b1, DEFAULT_SETTINGS.storageType, dirHandleRef,
                                    nextId, now)
              ELSE handleSelectSession(b1, DEFAULT_SETTINGS.storageType,
                                       loadedSessions[1].id, loadedSessions)
    IN /\ Draws(loadedSessions) => CanDraw
       /\ Adopt(b2)
       /\ settings' = initialSettings
       /\ AutoSave
       /\ lastOp' = Op("init", NoId, TRUE, "browser")
       /\ UNCHANGED <<dirHandleRef, needsPermission>>

\* init in browser mode, part_001:87-100
InitBrowser(initialSettings) ==
    LET loadedSessions == lsSessions
        b1 == [Cur EXCEPT !.sessions = loadedSessions]
        lastId == lsLastId
        b2 == IF Len(loadedSessions) = 0
              THEN createNewSession(b1, DEFAULT_SETTINGS.storageType, dirHandleRef,
                                    nextId, now)
              ELSE IF lastId # NoId /\ Find(loadedSessions, lastId) # <<>>
              THEN handleSelectSession(b1, DEFAULT_SETTINGS.storageType, lastId,
                                       loadedSessions)
              ELSE handleSelectSession(b1, DEFAULT_SETTINGS.storageType,
                                       loadedSessions[1].id, loadedSessions)
    IN /\ Draws(loadedSessions) => CanDraw
       /\ Adopt(b2)
       /\ settings' = initialSettings
       /\ AutoSave
       /\ lastOp' = Op("init", NoId, TRUE, "browser")
       /\ UNCHANGED <<dirHandleRef, needsPermission>>

init(idb, query, answer, io) ==
    /\ phase = "boot"
    /\ phase' = "running"
    /\ LET initialSettings == IF lsSettings = <<>> THEN DEFAULT_SETTINGS
                              ELSE lsSettings[1]
       IN IF initialSettings.storageType = "local"
          THEN InitLocal(initialSettings, idb, query, answer, io)
          ELSE InitBrowser(initialSettings)
    /\ UNCHANGED <<deleting, pending, writes, codec, lsSettings, handleDB, now>>

\* the user reloads the page: the component state is lost, the stores stay,
\* the host keeps or drops each permission
reloadPage ==
    /\ phase = "running"
    /\ phase' = "boot"
    /\ settings' = DEFAULT_SETTINGS
    /\ sessions' = <<>>
    /\ currentSessionId' = NoId
    /\ dirHandleRef' = NoHandle
    /\ needsPermission' = FALSE
    /\ currentFile' = NoFile
    /\ perm' \in [Dirs -> {"granted", "prompt"}]
    /\ \A d \in Dirs : perm'[d] = "granted" => perm[d] = "granted"
    /\ lastOp' = Op("reloadPage", NoId, TRUE, "")
    /\ UNCHANGED <<deleting, pending, writes, codec, lsSettings, lsSessions, lsLastId, fileDB, handleDB, disk, now>>

(***************************************************************************)
(* Handlers                                                                *)
(***************************************************************************)
\* requestPermission, part_001:247-254 (the banner's button, part_001:701)
requestPermission(query, answer, io) ==
    /\ phase = "running"
    /\ needsPermission /\ settings.storageType = "local"
    /\ IF dirHandleRef # NoHandle
          /\ verifyPermission(perm, dirHandleRef, TRUE, query, answer).granted
       THEN \E order \in Orders(DOMAIN disk[dirHandleRef].folders) :
              LET b0 == [Cur EXCEPT !.perm = PermAfter(perm, dirHandleRef, query,
                                                       answer)]
                  r == reloadFromDirectory(b0, settings.storageType, dirHandleRef,
                                           settings, needsPermission, order,
                                           nextId, now, io)
                  fs == LoadSessions(disk[dirHandleRef], order)
              IN /\ (r.ok /\ Draws(fs)) => CanDraw
                 /\ Adopt(r.b)
                 /\ settings' = r.settings
                 /\ needsPermission' = r.needs
                 /\ lastOp' = [Op("requestPermission", NoId, r.ok,
                                   IF r.ok THEN "granted" ELSE "load-failed")
                                  EXCEPT !.check =
                                    Check(perm, dirHandleRef, query, answer,
                                          verifyPermission(perm, dirHandleRef, TRUE,
                                                           query, answer))]
       ELSE /\ lastOp' = [Op("requestPermission", NoId, FALSE, "denied")
                             EXCEPT !.check =
                               IF dirHandleRef = NoHandle THEN NoCheck
                               ELSE Check(perm, dirHandleRef, query, answer,
                                          verifyPermission(perm, dirHandleRef, TRUE,
                                                           query, answer))]
            /\ UNCHANGED <<sessions, currentSessionId, currentFile, lsLastId, disk,
                           fileDB, perm, settings, needsPermission>>
    /\ AutoSave
    /\ UNCHANGED <<deleting, pending, writes, codec, phase, dirHandleRef, lsSettings, handleDB, now>>

\* the "new session" button: createNewSession, part_001:256-277
newSession ==
    /\ phase = "running"
    /\ CanDraw
    /\ Adopt(createNewSession(Cur, settings.storageType, dirHandleRef, nextId,
                                  now))
    /\ AutoSaveFor(settings.storageType)
    /\ lastOp' = Op("createNewSession", nextId, TRUE, "")
    /\ UNCHANGED <<deleting, pending, writes, codec, phase, settings, dirHandleRef, needsPermission, lsSettings,
                   handleDB, now>>

\* a click on a session of the sidebar: handleSelectSession, part_001:279-310
selectSession(id) ==
    /\ phase = "running"
    /\ id \in IdsOf(sessions)
    /\ Adopt(handleSelectSession(Cur, settings.storageType, id, sessions))
    /\ AutoSaveFor(settings.storageType)
    /\ lastOp' = Op("handleSelectSession", id, TRUE, "")
    /\ UNCHANGED <<deleting, pending, writes, codec, phase, settings, dirHandleRef, needsPermission, lsSettings,
                   handleDB, now>>

\* a click on a session whose getFileFromDB call fails: initDB rejects and
\* getFileFromDB returns undefined (storage.ts:53-56), or the request fails
\* and the catch of part_001:303 takes the rejection; either way the
\* handler goes on as with a store that has no entry
selectSessionFetchFails(id) ==
    /\ phase = "running"
    /\ id \in IdsOf(sessions)
    /\ settings.storageType = "browser"
    /\ Find(sessions, id)[1].file = NoFile /\ Find(sessions, id)[1].pdfName # NoName
    /\ Adopt([handleSelectSession([Cur EXCEPT !.fdb[id] = NoFile],
                                  settings.storageType, id, sessions)
                 EXCEPT !.fdb = fileDB])
    /\ AutoSaveFor(settings.storageType)
    /\ lastOp' = Op("handleSelectSession", id, TRUE, "fetch-failed")
    /\ UNCHANGED <<deleting, pending, writes, codec, phase, settings, dirHandleRef, needsPermission, lsSettings,
                   handleDB, now>>

\* handleFileUpload, part_001:312-337; the file input is rendered while no
\* document is shown (part_001:719-747)
handleFileUpload(file) ==
    /\ phase = "running"
    /\ currentFile = NoFile
    /\ LET hit == Find(sessions, currentSessionId)
           b1 == [Cur EXCEPT !.file = file]
       IN IF currentSessionId # NoId /\ hit # <<>>
          THEN LET updated == [hit[1] EXCEPT !.title = file, !.pdfName = file,
                                             !.file = file, !.summary = ""]
                   b2 == [b1 EXCEPT !.sessions = [i \in 1..Len(@) |->
                             IF @[i].id = currentSessionId THEN updated ELSE @[i]]]
               IN Adopt(persistSession(b2, settings.storageType, dirHandleRef,
                                       updated))
          ELSE Adopt(b1)
    /\ AutoSaveFor(settings.storageType)
    /\ lastOp' = Op("handleFileUpload", currentSessionId, TRUE, file)
    /\ UNCHANGED <<deleting, pending, writes, codec, phase, settings, dirHandleRef, needsPermission, lsSettings,
                   handleDB, now>>

\* addMessageToCurrentSession, part_001:368-382; its callers are the viewer
\* and the chat input, which need a shown document (part_001:719, 783)
addMessageToCurrentSession(msg) ==
    /\ phase = "running"
    /\ currentFile # NoFile
    /\ currentSessionId # NoId
    /\ \A i \in 1..Len(sessions) :
          sessions[i].id = currentSessionId => Len(sessions[i].messages) < MaxMsgs
    /\ LET next == [i \in 1..Len(sessions) |->
                      IF sessions[i].id = currentSessionId
                      THEN [sessions[i] EXCEPT !.messages = Append(@, msg),
                                               !.lastUpdated = now]
                      ELSE sessions[i]]
           hit == Find(next, currentSessionId)
           b1 == [Cur EXCEPT !.sessions = next]
       IN IF hit # <<>> /\ settings.storageType = "local"
          THEN Adopt(persistSession(b1, settings.storageType, dirHandleRef, hit[1]))
          ELSE Adopt(b1)
    /\ AutoSaveFor(settings.storageType)
    /\ lastOp' = Op("addMessage", currentSessionId, TRUE, msg)
    /\ UNCHANGED <<deleting, pending, writes, codec, phase, settings, dirHandleRef, needsPermission, lsSettings,
                   handleDB, now>>

\* handleDeleteSession, part_001:599-618
handleDeleteSession(id) ==
    /\ phase = "running"
    /\ id \in IdsOf(sessions)
    /\ LET b1 == IF settings.storageType = "local" /\ dirHandleRef # NoHandle
                 THEN IF perm[dirHandleRef] = "granted"
                      THEN [Cur EXCEPT !.disk[dirHandleRef] =
                                          deleteSessionFromDirectory(@, id)]
                      ELSE Cur
                 ELSE [Cur EXCEPT !.fdb[id] = NoFile]
           newSessions == SelectSeqBy(sessions, IdsOf(sessions) \ {id})
           b2 == [b1 EXCEPT !.sessions = newSessions]
           draws == currentSessionId = id /\ Draws(newSessions)
       IN /\ draws => CanDraw
          /\ IF currentSessionId = id
             THEN Adopt(SelectFirstOrCreate(b2, settings.storageType, dirHandleRef,
                                            newSessions, nextId, now))
             ELSE Adopt(b2)
    /\ AutoSaveFor(settings.storageType)
    /\ lastOp' = [Op("handleDeleteSession", id, TRUE,
                      IF settings.storageType = "local" /\ dirHandleRef # NoHandle
                      THEN "directory" ELSE "embedded")
                     EXCEPT !.prev =
                        IF settings.storageType = "local" /\ dirHandleRef # NoHandle
                        THEN [dir |-> dirHandleRef,
                              folders |-> disk[dirHandleRef].folders]
                        ELSE NoPrev]
    /\ UNCHANGED <<deleting, pending, writes, codec, phase, settings, dirHandleRef, needsPermission, lsSettings,
                   handleDB, now>>

\* a session of a backup file (handleExportData writes them without file)
BackupSession(id) == ChatSession(id, "backup", <<>>, NoName, NoFile, "", 0)

\* the backup arrays the user may pick
BackupFiles(maxLen) ==
    LET pool == {BackupSession(i) : i \in Ids}
    IN UNION {[1..n -> pool] : n \in 1..maxLen}

\* handleImportData, part_001:660-679; the button exists in browser mode
\* only (SettingsModal.tsx:326)
handleImportData(data) ==
    /\ phase = "running"
    /\ settings.storageType = "browser"
    /\ LET existingIds == IdsOf(sessions)
           validSessions == SelectSeqBy(data, IdsOf(data) \ existingIds)
       IN /\ sessions' = IF Len(validSessions) > 0
                         THEN sessions \o validSessions ELSE sessions
          /\ lastOp' = Op("handleImportData", NoId, Len(validSessions) > 0, "")
    /\ AutoSaveFor(settings.storageType)
    /\ UNCHANGED <<deleting, pending, writes, codec, phase, settings, currentSessionId, dirHandleRef,
                   needsPermission, currentFile, lsSettings, lsLastId, fileDB,
                   handleDB, disk, perm, now>>

\* handleChangeStorageMode('browser'), part_001:534-544; handleModeSwitch
\* returns early when the mode is already browser (SettingsModal.tsx:56)
switchModeBrowser ==
    /\ phase = "running"
    /\ settings.storageType = "local"
    /\ LET localSessions == lsSessions
           b1 == [Cur EXCEPT !.sessions = localSessions]
       IN /\ Draws(localSessions) => CanDraw
          /\ Adopt(SelectFirstOrCreate(b1, settings.storageType, dirHandleRef,
                                       localSessions, nextId, now))
    /\ needsPermission' = FALSE
    /\ settings' = [settings EXCEPT !.storageType = "browser",
                                    !.localDirectoryName = NoDir]
    /\ AutoSave
    /\ lastOp' = [Op("switchModeBrowser", NoId, TRUE, "") EXCEPT !.prev =
                    IF dirHandleRef # NoHandle
                    THEN [dir |-> dirHandleRef, folders |-> disk[dirHandleRef].folders]
                    ELSE NoPrev]
    /\ UNCHANGED <<deleting, pending, writes, codec, phase, dirHandleRef, lsSettings, handleDB, now>>

PickerFailures == {"unsupported", "AbortError", "SecurityError"}

\* pickerFails with the mode set before the picker is shown
pickerFailsAfterModeSet(why) ==
    [ret |-> FALSE, settings |-> [settings EXCEPT !.storageType = "local"],
     sessions |-> <<>>, cur |-> NoId, ref |-> dirHandleRef]

\* handleChangeStorageMode('local') when no handle is obtained,
\* part_001:546-553 and 583-594
pickerFails(why) ==
    [ret |-> FALSE, settings |-> settings, sessions |-> sessions,
     cur |-> currentSessionId, ref |-> dirHandleRef]

switchModeLocalFails(why) ==
    /\ phase = "running"
    /\ LET r == pickerFails(why)
       IN /\ settings' = r.settings
          /\ sessions' = r.sessions
          /\ currentSessionId' = r.cur
          /\ dirHandleRef' = r.ref
          /\ lastOp' = Op("switchModeLocal", NoId, r.ret, why)
    /\ AutoSave
    /\ UNCHANGED <<deleting, pending, writes, codec, phase, needsPermission, currentFile, lsSettings, lsLastId,
                   fileDB, handleDB, disk, perm, now>>

\* handleChangeStorageMode('local') when the user picks directory d,
\* part_001:553-581
switchModeLocalPicks(d, order) ==
    /\ phase = "running"
    /\ order \in Orders(DOMAIN disk[d].folders)
    /\ dirHandleRef' = d
    /\ handleDB' = d
    /\ LET b0 == [Cur EXCEPT !.perm[d] = "granted"]
           tree == disk[d]
           fsSessions == LoadSessions(tree, order)
           newSettings == [(IF tree.settingsJson # <<>> THEN tree.settingsJson[1]
                            ELSE settings)
                             EXCEPT !.storageType = "local",
                                    !.localDirectoryName = d]
           b1 == [b0 EXCEPT !.sessions = fsSessions,
                            !.disk[d] = saveSettingsToDirectory(LoadTouch(@),
                                                                newSettings)]
       IN /\ Draws(fsSessions) => CanDraw
          /\ settings' = newSettings
          /\ Adopt(SelectFirstOrCreate(b1, settings.storageType, d, fsSessions,
                                       nextId, now))
    /\ AutoSave
    /\ lastOp' = [Op("switchModeLocal", NoId, TRUE, d) EXCEPT !.prev =
                    IF lastOp.op = "switchModeBrowser" /\ lastOp.prev.dir = d
                    THEN lastOp.prev ELSE NoPrev]
    /\ UNCHANGED <<deleting, pending, writes, codec, phase, needsPermission, lsSettings, now>>

\* handleChangeStorageMode('local') when the user picks directory d and
\* loadFromDirectory raises, part_001:553-559 and 583-594
switchModeLocalLoadFails(d) ==
    /\ phase = "running"
    /\ dirHandleRef' = d
    /\ handleDB' = d
    /\ Adopt(loadFailed([Cur EXCEPT !.perm[d] = "granted"]))
    /\ AutoSaveFor(settings.storageType)
    /\ lastOp' = Op("switchModeLocal", NoId, FALSE, "load-failed")
    /\ UNCHANGED <<deleting, pending, writes, codec, phase, settings, needsPermission, lsSettings, now>>

\* handleChangeStorageMode('local') when the user picks directory d and
\* saveDirectoryHandle raises, part_001:553-558 and 583-594
switchModeLocalStoreFails(d) ==
    /\ phase = "running"
    /\ dirHandleRef' = d
    /\ Adopt(loadFailed([Cur EXCEPT !.perm[d] = "granted"]))
    /\ AutoSaveFor(settings.storageType)
    /\ lastOp' = Op("switchModeLocal", NoId, FALSE, "store-failed")
    /\ UNCHANGED <<deleting, pending, writes, codec, phase, settings, needsPermission, lsSettings,
                   handleDB, now>>

ApiKeys == {"key"}

\* the settings dialog's Save: onSave, part_001:793-796, and persistSettings,
\* part_001:160-165
persistSettings(key) ==
    /\ phase = "running"
    /\ LET newSettings == [settings EXCEPT !.apiKey = key]
       IN /\ settings' = newSettings
          /\ disk' = IF newSettings.storageType = "local" /\ dirHandleRef # NoHandle
                        /\ perm[dirHandleRef] = "granted"
                     THEN [disk EXCEPT ![dirHandleRef] =
                                          saveSettingsToDirectory(@, newSettings)]
                     ELSE disk
          /\ lsSettings' = <<newSettings>>
    /\ lastOp' = Op("persistSettings", NoId, TRUE, key)
    /\ UNCHANGED <<deleting, pending, writes, codec, phase, sessions, currentSessionId, dirHandleRef,
                   needsPermission, currentFile, lsSessions, lsLastId, fileDB,
                   handleDB, perm, now>>

\* time passes
tick ==
    /\ now < MaxClock
    /\ now' = now + 1
    /\ UNCHANGED <<deleting, pending, writes, codec, phase, settings, sessions, currentSessionId, dirHandleRef,
                   needsPermission, currentFile, lsSettings, lsSessions, lsLastId,
                   fileDB, handleDB, disk, perm, lastOp>>

\* the actions of one tab of the application; the backup files offered to
\* the import hold one session
Next ==
    \/ \E idb \in {"ok", "fail"}, query \in Queries, answer \in Answers :
          init(idb, query, answer, "ok")
    \/ reloadPage
    \/ \E query \in Queries, answer \in Answers :
          requestPermission(query, answer, "ok")
    \/ newSession
    \/ \E id \in Ids : selectSession(id)
    \/ \E file \in Files : handleFileUpload(file)
    \/ \E msg \in Contents : addMessageToCurrentSession(msg)
    \/ \E id \in Ids : handleDeleteSession(id)
    \/ \E data \in BackupFiles(1) : handleImportData(data)
    \/ switchModeBrowser
    \/ \E why \in PickerFailures : switchModeLocalFails(why)
    \/ \E d \in FirstDir : \E order \in Orders(DOMAIN disk[d].folders) :
          switchModeLocalPicks(d, order)
    \/ \E key \in ApiKeys : persistSettings(key)

Spec == Init /\ [][Next]_vars

\* the application while it stays in browser mode, with the clock and with
\* backup files of up to MaxImport sessions
NextEmbedded ==
    \/ \E idb \in {"ok", "fail"}, query \in Queries, answer \in Answers :
          init(idb, query, answer, "ok")
    \/ reloadPage
    \/ newSession
    \/ \E id \in Ids : selectSession(id)
    \/ \E file \in Files : handleFileUpload(file)
    \/ \E msg \in Contents : addMessageToCurrentSession(msg)
    \/ \E id \in Ids : handleDeleteSession(id)
    \/ \E data \in BackupFiles(MaxImport) : handleImportData(data)
    \/ \E key \in ApiKeys : persistSettings(key)
    \/ tick

SpecEmbedded == Init /\ [][NextEmbedded]_vars

\* the application with loads of the directory that may raise
NextFaults ==
    \/ \E idb \in {"ok", "fail"}, query \in Queries, answer \in Answers, io \in IO :
          init(idb, query, answer, io)
    \/ reloadPage
    \/ \E query \in Queries, answer \in Answers, io \in IO :
          requestPermission(query, answer, io)
    \/ newSession
    \/ \E id \in Ids : selectSession(id)
    \/ \E file \in Files : handleFileUpload(file)
    \/ \E msg \in Contents : addMessageToCurrentSession(msg)
    \/ \E id \in Ids : handleDeleteSession(id)
    \/ \E data \in BackupFiles(1) : handleImportData(data)
    \/ switchModeBrowser
    \/ \E why \in PickerFailures : switchModeLocalFails(why)
    \/ \E d \in FirstDir : \E order \in Orders(DOMAIN disk[d].folders) :
          switchModeLocalPicks(d, order)
    \/ \E d \in FirstDir : switchModeLocalLoadFails(d)
    \/ \E d \in FirstDir : switchModeLocalStoreFails(d)
    \/ \E key \in ApiKeys : persistSettings(key)
    \/ \E id \in Ids : selectSessionFetchFails(id)

SpecFaults == Init /\ [][NextFaults]_vars

\* the application with two directories to pick from, and switches to local
\* mode that fail after the directory was picked
NextTwoDirs ==
    \/ init("ok", "ok", "granted", "ok")
    \/ newSession
    \/ \E file \in Files : handleFileUpload(file)
    \/ \E msg \in Contents : addMessageToCurrentSession(msg)
    \/ switchModeBrowser
    \/ \E why \in PickerFailures : switchModeLocalFails(why)
    \/ \E d \in Dirs : \E order \in Orders(DOMAIN disk[d].folders) :
          switchModeLocalPicks(d, order)
    \/ \E d \in Dirs : switchModeLocalLoadFails(d)
    \/ \E d \in Dirs : switchModeLocalStoreFails(d)

SpecTwoDirs == Init /\ [][NextTwoDirs]_vars

(***************************************************************************)
(* The directory codec on its own: saveSessionToDirectory,                 *)
(* loadFromDirectory and deleteSessionFromDirectory applied, with          *)
(* permission granted, to a directory that the user also edits by hand.    *)
(***************************************************************************)
\* the sessions a caller may hand to saveSessionToDirectory
CodecSessions ==
    {ChatSession(i, IF f = NoFile THEN NewTitle ELSE f, m,
                 IF f = NoFile THEN NoName ELSE f, f, "", lu) :
        i \in Ids, f \in Files \cup {NoFile},
        m \in {<<>>, <<"hello">>}, lu \in 0..MaxClock}

InitCodec ==
    /\ phase = "running"
    /\ settings = [DEFAULT_SETTINGS EXCEPT !.storageType = "local",
                                           !.localDirectoryName = "D1"]
    /\ sessions = <<>>
    /\ currentSessionId = NoId
    /\ dirHandleRef = "D1"
    /\ needsPermission = FALSE
    /\ currentFile = NoFile
    /\ lsSettings = <<>>
    /\ lsSessions = <<>>
    /\ lsLastId = NoId
    /\ fileDB = [i \in Ids |-> NoFile]
    /\ handleDB = "D1"
    /\ disk = [d \in Dirs |-> EmptyTree]
    /\ perm = [d \in Dirs |-> "granted"]
    /\ now = 0
    /\ lastOp = Op("mount", NoId, TRUE, "")
    /\ codec = NoCodec
    /\ writes = <<>>
    /\ pending = NoPending
    /\ deleting = <<>>

CodecFrame ==
    UNCHANGED <<phase, settings, sessions, currentSessionId, dirHandleRef,
                needsPermission, currentFile, lsSettings, lsSessions, lsLastId,
                fileDB, handleDB, perm, now, writes, pending, deleting>>

codecSave(session) ==
    /\ disk' = [disk EXCEPT !["D1"] = saveSessionToDirectory(@, session)]
    /\ codec' = [codec EXCEPT !.saved = <<session>>]
    /\ lastOp' = Op("saveSessionToDirectory", session.id, TRUE, "")
    /\ CodecFrame

codecLoad(order) ==
    /\ order \in Orders(DOMAIN disk["D1"].folders)
    /\ disk' = [disk EXCEPT !["D1"] = LoadTouch(@)]
    /\ codec' = [codec EXCEPT !.loaded = LoadSessions(disk["D1"], order),
                              !.order = order]
    /\ lastOp' = Op("loadFromDirectory", NoId, TRUE, "")
    /\ CodecFrame

codecDelete(id) ==
    /\ disk' = [disk EXCEPT !["D1"] = deleteSessionFromDirectory(@, id)]
    /\ codec' = IF codec.saved # <<>> /\ codec.saved[1].id = id
                THEN [codec EXCEPT !.saved = <<>>] ELSE codec
    /\ lastOp' = Op("deleteSessionFromDirectory", id, TRUE, "")
    /\ CodecFrame

\* the user edits sessions/ outside the application: folder `name` loses
\* its chat.json, or gets one that does not parse (bad), or is created
userEdit(name, bad) ==
    /\ disk["D1"].hasSessions
    /\ disk' = [disk EXCEPT !["D1"].folders =
                  [n \in DOMAIN @ \cup {name} |->
                     IF n # name THEN @[n]
                     ELSE Folder(<<>>, bad,
                                 IF name \in DOMAIN @ THEN @[name].pdf ELSE NoFile)]]
    /\ codec' = IF codec.saved # <<>> /\ codec.saved[1].id = name
                THEN [codec EXCEPT !.saved = <<>>] ELSE codec
    /\ lastOp' = Op("userEdit", name, TRUE, "")
    /\ CodecFrame

\* the user renames the folder sessions/<from> to sessions/<to>
userRename(from, to) ==
    /\ from \in DOMAIN disk["D1"].folders
    /\ to \notin DOMAIN disk["D1"].folders
    /\ disk' = [disk EXCEPT !["D1"].folders =
                  [n \in (DOMAIN @ \ {from}) \cup {to} |->
                     IF n = to THEN @[from] ELSE @[n]]]
    /\ codec' = IF codec.saved # <<>> /\ codec.saved[1].id = from
                THEN [codec EXCEPT !.saved = <<>>] ELSE codec
    /\ lastOp' = Op("userRename", to, TRUE, "")
    /\ CodecFrame

NextCodec ==
    \/ \E session \in CodecSessions : codecSave(session)
    \/ \E order \in Orders(DOMAIN disk["D1"].folders) : codecLoad(order)
    \/ \E id \in Ids : codecDelete(id)
    \/ \E name \in Ids, bad \in BOOLEAN : userEdit(name, bad)
    \/ \E from \in Ids, to \in Ids : userRename(from, to)

SpecCodec == InitCodec /\ [][NextCodec]_vars

(***************************************************************************)
(* saveSessionToDirectory calls in flight together.  persistSession and    *)
(* createNewSession issue the call without awaiting it, so a later call    *)
(* may start, and its awaits may resume, between the awaits of an earlier  *)
(* one.  Each call is at one of: "open" (before the two                    *)
(* getDirectoryHandle calls), "chat" (before chat.json is closed), "pdf"   *)
(* (before document.pdf is closed), "done".                                *)
(***************************************************************************)
OverlapFrame ==
    UNCHANGED <<phase, settings, sessions, currentSessionId, dirHandleRef,
                needsPermission, currentFile, lsSettings, lsSessions, lsLastId,
                fileDB, handleDB, perm, now, codec, pending, deleting>>

\* no handler takes the document away from a session: a later snapshot of a
\* session keeps the file of an earlier one
KeepsFile(session) ==
    \A i \in DOMAIN writes :
        writes[i].session.id = session.id /\ writes[i].session.file # NoFile
            => session.file = writes[i].session.file

\* a call as it is issued; `with` are the calls in flight at that moment,
\* `raised` whether the call has raised to its caller
InFlight == {i \in DOMAIN writes : writes[i].pc \notin {"done", "failed"}}
NewWrite(session) ==
    [session |-> session, pc |-> "open", with |-> InFlight, raised |-> FALSE]

\* the call is issued
saveBegin(session) ==
    /\ Len(writes) < MaxWrites
    /\ KeepsFile(session)
    /\ writes' = Append(writes, NewWrite(session))
    /\ lastOp' = Op("saveSessionToDirectory", session.id, TRUE, "begin")
    /\ UNCHANGED disk
    /\ OverlapFrame

saveStepOpen(i) ==
    /\ writes[i].pc = "open"
    /\ disk' = [disk EXCEPT !["D1"] = saveOpenFolder(@, writes[i].session)]
    /\ writes' = [writes EXCEPT ![i].pc = "chat"]
    /\ lastOp' = Op("saveSessionToDirectory", writes[i].session.id, TRUE, "open")
    /\ OverlapFrame

saveStepChat(i) ==
    /\ writes[i].pc = "chat"
    /\ disk' = [disk EXCEPT !["D1"] = saveWriteChat(@, writes[i].session)]
    /\ writes' = [writes EXCEPT ![i].pc =
                     IF writes[i].session.file # NoFile THEN "pdf" ELSE "done"]
    /\ lastOp' = Op("saveSessionToDirectory", writes[i].session.id, TRUE, "chat")
    /\ OverlapFrame

saveStepPdf(i) ==
    /\ writes[i].pc = "pdf"
    /\ disk' = [disk EXCEPT !["D1"] = saveWritePdf(@, writes[i].session)]
    /\ writes' = [writes EXCEPT ![i].pc = "done"]
    /\ lastOp' = Op("saveSessionToDirectory", writes[i].session.id, TRUE, "pdf")
    /\ OverlapFrame

NextOverlap ==
    \/ \E session \in CodecSessions : saveBegin(session)
    \/ \E i \in DOMAIN writes : saveStepOpen(i)
    \/ \E i \in DOMAIN writes : saveStepChat(i)
    \/ \E i \in DOMAIN writes : saveStepPdf(i)

SpecOverlap == InitCodec /\ [][NextOverlap]_vars

(***************************************************************************)
(* Directory writes that may fail.  A handler puts the session into the    *)
(* in-memory list and issues the save; any step of the save may raise.     *)
(***************************************************************************)
\* saveSessionToDirectory without its try/catch: the error reaches the caller
saveFailedNoCatch(w) == [w EXCEPT !.pc = "failed", !.raised = TRUE]

\* saveSessionToDirectory, storage.ts:223-225: the catch logs the error and
\* the call returns
saveFailed(w) == [w EXCEPT !.pc = "failed"]

\* the handler's setSessions and its persistSession(session)
persistBegin(session) ==
    /\ Len(writes) < MaxWrites
    /\ KeepsFile(session)
    /\ sessions' = IF session.id \in IdsOf(sessions)
                   THEN Replace(sessions, session.id, session)
                   ELSE <<session>> \o sessions
    /\ writes' = Append(writes, NewWrite(session))
    /\ lastOp' = Op("saveSessionToDirectory", session.id, TRUE, "begin")
    /\ UNCHANGED <<phase, settings, currentSessionId, dirHandleRef,
                   needsPermission, currentFile, lsSettings, lsSessions, lsLastId,
                   fileDB, handleDB, perm, now, codec, disk, pending, deleting>>

\* a step of call i raises; when the first step raises, sessions/ may have
\* been created already (partial); a file whose stream was not closed is
\* left as it was
saveStepFails(i, partial) ==
    /\ writes[i].pc \in {"open", "chat", "pdf"}
    /\ partial => writes[i].pc = "open"
    /\ disk' = IF partial THEN [disk EXCEPT !["D1"].hasSessions = TRUE] ELSE disk
    /\ writes' = [writes EXCEPT ![i] = saveFailed(@)]
    /\ lastOp' = Op("saveSessionToDirectory", writes[i].session.id, FALSE, "failed")
    /\ OverlapFrame

\* saveSettingsToDirectory, storage.ts:239-248, completing or raising inside
codecSaveSettings(key, io) ==
    /\ disk' = IF io = "ok"
               THEN [disk EXCEPT !["D1"] =
                       saveSettingsToDirectory(@, [settings EXCEPT !.apiKey = key])]
               ELSE disk
    /\ lastOp' = Op("saveSettingsToDirectory", NoId, io = "ok",
                    IF io = "ok" THEN "" ELSE "caught")
    /\ UNCHANGED writes
    /\ OverlapFrame

NextWriteFaults ==
    \/ \E session \in CodecSessions : persistBegin(session)
    \/ \E i \in DOMAIN writes : saveStepOpen(i)
    \/ \E i \in DOMAIN writes : saveStepChat(i)
    \/ \E i \in DOMAIN writes : saveStepPdf(i)
    \/ \E i \in DOMAIN writes, partial \in BOOLEAN : saveStepFails(i, partial)
    \/ \E key \in ApiKeys, io \in IO : codecSaveSettings(key, io)

SpecWriteFaults == InitCodec /\ [][NextWriteFaults]_vars

(***************************************************************************)
(* The chat handlers.  A Message is [role, content]; its id is its place   *)
(* in the list.  A handler with its stream is one action: `outcome` says   *)
(* whether geminiService.streamChat delivered the response or raised.      *)
(***************************************************************************)
Message(role, content) == [role |-> role, content |-> content]
UserMsg == Message("user", "hello")
SummaryMsg == Message("system", "analysed")
ErrorMsg == Message("system", "error")
Outcomes == {"ok", "error"}

\* the updater of addMessageToCurrentSession, part_001:370-381, with the
\* persist it issues
appendMessage(b, cst, ref, cur, msg, time) ==
    LET hit == Find(b.sessions, cur)
    IN IF hit = <<>> THEN b
       ELSE LET new == [hit[1] EXCEPT !.messages = Append(@, msg),
                                      !.lastUpdated = time]
                b1 == [b EXCEPT !.sessions = Replace(@, cur, new)]
            IN IF cst = "local" THEN persistSession(b1, cst, ref, new) ELSE b1

\* runChatStream, part_001:384-453
runChatStream(b, cst, ref, sessionId, messagesToProcess, time, outcome) ==
    LET hit == Find(b.sessions, sessionId)
    IN IF hit = <<>> THEN b
       ELSE LET optimistic == [hit[1] EXCEPT
                                 !.messages = Append(messagesToProcess,
                                                     Message("model", "")),
                                 !.lastUpdated = time]
                final == [optimistic EXCEPT
                            !.messages[Len(messagesToProcess) + 1].content = "reply"]
                failed == [optimistic EXCEPT !.messages = Append(@, ErrorMsg)]
            IN IF outcome = "ok"
               THEN LET b1 == [b EXCEPT !.sessions = Replace(@, sessionId, final)]
                    IN IF cst = "local" THEN persistSession(b1, cst, ref, final)
                       ELSE b1
               ELSE [b EXCEPT !.sessions = Replace(@, sessionId, failed)]

ChatFrame ==
    UNCHANGED <<deleting, pending, writes, codec, phase, settings, dirHandleRef, needsPermission,
                lsSettings, handleDB, now>>

\* the messages of the current session, as the closure sees them
CurMessages ==
    IF Find(sessions, currentSessionId) = <<>> THEN <<>>
    ELSE Find(sessions, currentSessionId)[1].messages

\* handleTextExtracted, part_001:339-366; env: process.env.API_KEY is set
handleTextExtracted(env) ==
    /\ phase = "running"
    /\ currentFile # NoFile
    /\ Len(CurMessages) + 1 <= MaxChat
    /\ LET b1 == IF settings.apiKey # "" \/ env
                 THEN appendMessage(Cur, settings.storageType, dirHandleRef,
                                    currentSessionId, SummaryMsg, now)
                 ELSE Cur
           hit == Find(b1.sessions, currentSessionId)
       IN IF currentSessionId # NoId /\ hit # <<>>
          THEN LET new == [hit[1] EXCEPT !.summary = "summary"]
                   b2 == [b1 EXCEPT !.sessions = Replace(@, currentSessionId, new)]
               IN Adopt(IF settings.storageType = "local"
                        THEN persistSession(b2, settings.storageType, dirHandleRef,
                                            new)
                        ELSE b2)
          ELSE Adopt(b1)
    /\ AutoSaveFor(settings.storageType)
    /\ lastOp' = Op("handleTextExtracted", currentSessionId, TRUE, "")
    /\ ChatFrame

\* handleSendMessage, part_001:455-474 (handleExplainPage, part_001:620-638,
\* has the same body); the chat input is disabled while no document is shown
handleSendMessage(outcome) ==
    /\ phase = "running"
    /\ currentSessionId # NoId
    /\ currentFile # NoFile
    /\ Len(CurMessages) + 3 <= MaxChat
    /\ LET b1 == appendMessage(Cur, settings.storageType, dirHandleRef,
                               currentSessionId, UserMsg, now)
           currentSession == Find(sessions, currentSessionId)
       IN IF currentSession = <<>> THEN Adopt(b1)
          ELSE Adopt(runChatStream(b1, settings.storageType, dirHandleRef,
                                   currentSessionId,
                                   Append(currentSession[1].messages, UserMsg),
                                   now, outcome))
    /\ AutoSaveFor(settings.storageType)
    /\ lastOp' = Op("handleSendMessage", currentSessionId, outcome = "ok", "")
    /\ ChatFrame

\* handleEditMessage, part_001:477-517, for the message at place k; the new
\* text is "edited", a text the message does not have yet
handleEditMessage(k, outcome) ==
    /\ phase = "running"
    /\ currentSessionId # NoId
    /\ k \in 1..Len(CurMessages)
    /\ CurMessages[k].content # "edited"
    /\ LET currentSession == Find(sessions, currentSessionId)[1]
           targetMsg == currentSession.messages[k]
           updatedMsg == [targetMsg EXCEPT !.content = "edited"]
       IN IF targetMsg.role = "model"
          THEN LET new == [currentSession EXCEPT !.messages[k] = updatedMsg]
                   b1 == [Cur EXCEPT !.sessions = Replace(@, currentSessionId, new)]
               IN Adopt(IF settings.storageType = "local"
                        THEN persistSession(b1, settings.storageType, dirHandleRef,
                                            new)
                        ELSE b1)
          ELSE LET newHistory == Append(SubSeq(currentSession.messages, 1, k - 1),
                                        updatedMsg)
                   new == [currentSession EXCEPT !.messages = newHistory]
                   b1 == [Cur EXCEPT !.sessions = Replace(@, currentSessionId, new)]
               IN /\ Len(newHistory) + 2 <= MaxChat
                  /\ Adopt(runChatStream(b1, settings.storageType, dirHandleRef,
                                         currentSessionId, newHistory, now, outcome))
    /\ AutoSaveFor(settings.storageType)
    /\ lastOp' = Op("handleEditMessage", currentSessionId, outcome = "ok",
                    CurMessages[k].role)
    /\ ChatFrame

\* handleRegenerate, part_001:519-530
handleRegenerate(outcome) ==
    /\ phase = "running"
    /\ currentSessionId # NoId
    /\ CurMessages # <<>>
    /\ CurMessages[Len(CurMessages)].role = "model"
    /\ LET currentSession == Find(sessions, currentSessionId)[1]
           history == SubSeq(currentSession.messages, 1, Len(CurMessages) - 1)
           new == [currentSession EXCEPT !.messages = history]
           b1 == [Cur EXCEPT !.sessions = Replace(@, currentSessionId, new)]
       IN /\ Len(history) + 2 <= MaxChat
          /\ Adopt(runChatStream(b1, settings.storageType, dirHandleRef,
                                 currentSessionId, history, now, outcome))
    /\ AutoSaveFor(settings.storageType)
    /\ lastOp' = Op("handleRegenerate", currentSessionId, outcome = "ok", "")
    /\ ChatFrame

NextChat ==
    \/ init("ok", "ok", "granted", "ok")
    \/ tick
    \/ \E d \in FirstDir : \E order \in Orders(DOMAIN disk[d].folders) :
          switchModeLocalPicks(d, order)
    \/ \E file \in Files : handleFileUpload(file)
    \/ \E env \in BOOLEAN : handleTextExtracted(env)
    \/ \E outcome \in Outcomes : handleSendMessage(outcome)
    \/ \E k \in 1..MaxChat, outcome \in Outcomes : handleEditMessage(k, outcome)
    \/ \E outcome \in Outcomes : handleRegenerate(outcome)

SpecChat == Init /\ [][NextChat]_vars

(***************************************************************************)
(* The chat handlers with React's update queue.  setSessions(prev => ...)  *)
(* queues its updater; React applies the queued updaters in order in its   *)
(* next render (updates made outside an event handler are batched too),    *)
(* and a persistSession call inside an updater is issued at that moment.   *)
(* runChatStream takes its final snapshot inside an updater                *)
(* and issues the save after the await of part_001:428, in a continuation  *)
(* that runs once the render has returned, before any other task.  A       *)
(* saveSessionToDirectory call completes when it is issued.                *)
(***************************************************************************)
Idle ==
    /\ pending.updaters = <<>>
    /\ pending.micro = <<>>
    /\ pending.stream.state = "none"

\* a queued updater: the handler call's arguments and its closure's
\* storageType
Updater(kind, id, cst, msg, history) ==
    [kind |-> kind, id |-> id, cst |-> cst, msg |-> msg, history |-> history]

\* the save of `new` issued from inside an updater, with the version of the
\* list that `new` was taken from
IssueSave(st, cst, ref, new, version) ==
    IF cst = "local"
    THEN [st EXCEPT !.b = persistSession(@, cst, ref, new),
                    !.issued = IF ref # NoHandle
                               THEN Append(@, [id |-> new.id, version |-> version])
                               ELSE @]
    ELSE st

\* one updater applied to st = [b, micro, version, issued]
ApplyUpdater(st, u, ref, time) ==
    LET hit == Find(st.b.sessions, u.id)
        put(new) == [st EXCEPT !.b.sessions = Replace(@, u.id, new),
                               !.version = @ + 1]
    IN IF u.kind = "resolve"
       \* part_001:428-431: resolve(prev); return prev
       THEN [st EXCEPT !.micro = Append(@, [id |-> u.id, cst |-> u.cst,
                                            snapshot |-> hit,
                                            version |-> st.version])]
       ELSE IF hit = <<>> THEN st
       ELSE IF u.kind = "append"
       \* part_001:370-381
       THEN LET new == [hit[1] EXCEPT !.messages = Append(@, u.msg),
                                      !.lastUpdated = time]
            IN IssueSave(put(new), u.cst, ref, new, st.version + 1)
       ELSE IF u.kind = "summary"
       \* part_001:359-364
       THEN LET new == [hit[1] EXCEPT !.summary = "summary"]
            IN IssueSave(put(new), u.cst, ref, new, st.version + 1)
       ELSE IF u.kind = "optimistic"
       \* part_001:391-405
       THEN put([hit[1] EXCEPT !.messages = Append(u.history, Message("model", "")),
                               !.lastUpdated = time])
       \* "chunk", part_001:414-424: the response is the message after the
       \* history
       ELSE LET at == Len(u.history) + 1
            IN IF at <= Len(hit[1].messages) /\ hit[1].messages[at].role = "model"
               THEN put([hit[1] EXCEPT !.messages[at].content = "reply"])
               ELSE put(hit[1])

RECURSIVE ApplyUpdaters(_, _, _, _)
ApplyUpdaters(st, q, ref, time) ==
    IF q = <<>> THEN st
    ELSE ApplyUpdaters(ApplyUpdater(st, Head(q), ref, time), Tail(q), ref, time)

QueueFrame ==
    UNCHANGED <<phase, settings, sessions, currentSessionId, dirHandleRef,
                needsPermission, currentFile, lsSettings, lsSessions, lsLastId,
                fileDB, handleDB, disk, perm, now, codec, writes, deleting>>

\* whether a handler may run and queue n more updaters: a continuation that
\* is ready runs before any other task
Room(n) ==
    /\ pending.micro = <<>>
    /\ Len(pending.updaters) + n <= MaxQueue
    /\ pending.version + Len(pending.updaters) + n <= MaxVersion

\* the messages the current session will hold once the queue is applied, at
\* most
Growing ==
    Len(CurMessages)
    + Cardinality({i \in DOMAIN pending.updaters :
                      pending.updaters[i].kind \in {"append", "optimistic"}})

\* handleSendMessage, part_001:455-474, up to the first await of
\* runChatStream (part_001:412)
sendCall ==
    /\ phase = "running"
    /\ currentSessionId # NoId
    /\ currentFile # NoFile
    /\ pending.stream.state = "none"
    /\ Find(sessions, currentSessionId) # <<>>
    /\ Growing + 2 <= MaxChat
    /\ Room(2)
    /\ LET cst == settings.storageType
           history == Append(CurMessages, UserMsg)
       IN pending' = [pending EXCEPT
              !.updaters = @ \o <<Updater("append", currentSessionId, cst, UserMsg,
                                          <<>>),
                                  Updater("optimistic", currentSessionId, cst,
                                          UserMsg, history)>>,
              !.stream = [state |-> "running", id |-> currentSessionId,
                          cst |-> cst, history |-> history]]
    /\ lastOp' = Op("handleSendMessage", currentSessionId, TRUE, "call")
    /\ QueueFrame

\* the updaters that handleSendMessage queued have been applied: React
\* renders at the end of the click's event, before the stream can answer
Flushed ==
    \A i \in DOMAIN pending.updaters : pending.updaters[i].kind # "optimistic"

\* runChatStream: the stream delivers the response, part_001:412-425
streamChunk ==
    /\ pending.stream.state = "running"
    /\ Flushed
    /\ Room(1)
    /\ pending' = [pending EXCEPT
           !.updaters = Append(@, Updater("chunk", pending.stream.id,
                                          pending.stream.cst, UserMsg,
                                          pending.stream.history)),
           !.stream.state = "chunked"]
    /\ lastOp' = Op("runChatStream", pending.stream.id, TRUE, "chunk")
    /\ QueueFrame

\* runChatStream: the stream has ended, part_001:427-431; with nothing
\* queued React computes the updater at once, so the snapshot is taken now
streamEnd ==
    /\ pending.stream.state \in {"running", "chunked"}
    /\ Flushed
    /\ Room(1)
    /\ pending' =
          IF pending.updaters = <<>>
          THEN [pending EXCEPT
                  !.micro = Append(@, [id |-> pending.stream.id,
                                       cst |-> pending.stream.cst,
                                       snapshot |-> Find(sessions, pending.stream.id),
                                       version |-> pending.version]),
                  !.stream.state = "awaiting"]
          ELSE [pending EXCEPT
                  !.updaters = Append(@, Updater("resolve", pending.stream.id,
                                                 pending.stream.cst, UserMsg, <<>>)),
                  !.stream.state = "awaiting"]
    /\ lastOp' = Op("runChatStream", pending.stream.id, TRUE, "end")
    /\ QueueFrame

\* handleTextExtracted, part_001:339-366, after generateSummary has answered
textExtractedCall(env) ==
    /\ phase = "running"
    /\ currentFile # NoFile
    /\ currentSessionId # NoId
    /\ LET cst == settings.storageType
           add == IF settings.apiKey # "" \/ env
                  THEN <<Updater("append", currentSessionId, cst, SummaryMsg, <<>>)>>
                  ELSE <<>>
       IN /\ Growing + Len(add) <= MaxChat
          /\ Room(Len(add) + 1)
          /\ pending' = [pending EXCEPT
                 !.updaters = @ \o add \o
                     <<Updater("summary", currentSessionId, cst, SummaryMsg, <<>>)>>]
    /\ lastOp' = Op("handleTextExtracted", currentSessionId, TRUE, "call")
    /\ QueueFrame

\* React renders: the queued updaters are applied in the order of the queue
render ==
    /\ pending.updaters # <<>>
    /\ pending.micro = <<>>
    /\ LET st == ApplyUpdaters([b |-> Cur, micro |-> pending.micro,
                                version |-> pending.version,
                                issued |-> pending.issued],
                               pending.updaters, dirHandleRef, now)
       IN /\ Adopt(st.b)
          /\ pending' = [pending EXCEPT !.updaters = <<>>, !.micro = st.micro,
                                        !.version = st.version,
                                        !.issued = st.issued]
    /\ AutoSaveFor(settings.storageType)
    /\ lastOp' = Op("render", NoId, TRUE, "")
    /\ UNCHANGED <<deleting, writes, codec, phase, settings, dirHandleRef, needsPermission,
                   lsSettings, handleDB, now>>

\* runChatStream after the await of part_001:428: part_001:432-435 and the
\* finally block
continuation ==
    /\ pending.micro # <<>>
    /\ LET m == Head(pending.micro)
           st == [b |-> Cur, micro |-> <<>>, version |-> pending.version,
                  issued |-> pending.issued]
           st1 == IF m.snapshot # <<>>
                  THEN IssueSave(st, m.cst, dirHandleRef, m.snapshot[1], m.version)
                  ELSE st
       IN /\ Adopt(st1.b)
          /\ pending' = [pending EXCEPT !.micro = Tail(@), !.issued = st1.issued,
                                        !.stream = NoStream]
    /\ AutoSaveFor(settings.storageType)
    /\ lastOp' = Op("runChatStream", Head(pending.micro).id, TRUE, "persist")
    /\ UNCHANGED <<deleting, writes, codec, phase, settings, dirHandleRef, needsPermission,
                   lsSettings, handleDB, now>>

NextQueue ==
    \/ Idle /\ init("ok", "ok", "granted", "ok")
    \/ Idle /\ \E d \in FirstDir : \E order \in Orders(DOMAIN disk[d].folders) :
                  switchModeLocalPicks(d, order)
    \/ Idle /\ \E file \in Files : handleFileUpload(file)
    \/ sendCall
    \/ streamChunk
    \/ streamEnd
    \/ \E env \in BOOLEAN : textExtractedCall(env)
    \/ render
    \/ continuation

SpecQueue == Init /\ [][NextQueue]_vars

(***************************************************************************)
(* handleDeleteSession, part_001:599-618, with its await.  The click reads *)
(* the closure and dirHandleRef.current and issues the backend delete; the *)
(* rest of the handler runs when the delete has returned, with the         *)
(* `sessions`, `currentSessionId` and `settings` of the click's render.    *)
(* SpecDeleteRace runs the handler against saves of the directory that are *)
(* in flight, file step by file step.                                      *)
(***************************************************************************)
DeleteCall(id) ==
    [id |-> id, pc |-> "backend", sessions |-> sessions,
     cur |-> currentSessionId, cst |-> settings.storageType,
     ref |-> dirHandleRef, after |-> DOMAIN writes]

DeleteFrame ==
    UNCHANGED <<phase, settings, dirHandleRef, needsPermission, lsSettings,
                handleDB, now, codec, writes, pending>>

\* the click: part_001:600-603
deleteBegin(id) ==
    /\ phase = "running"
    /\ id \in IdsOf(sessions)
    /\ Len(deleting) < MaxDeletes
    /\ deleting' = Append(deleting, DeleteCall(id))
    /\ lastOp' = Op("handleDeleteSession", id, TRUE, "begin")
    /\ UNCHANGED <<sessions, currentSessionId, currentFile, lsSessions, lsLastId,
                   fileDB, disk, perm>>
    /\ DeleteFrame

\* deleteSessionFromDirectory or deleteFileFromDB takes effect,
\* part_001:602-606
deleteBackend(k) ==
    /\ deleting[k].pc = "backend"
    /\ LET c == deleting[k]
       IN IF c.cst = "local" /\ c.ref # NoHandle
          THEN /\ disk' = IF perm[c.ref] = "granted"
                          THEN [disk EXCEPT ![c.ref] =
                                  deleteSessionFromDirectory(@, c.id)]
                          ELSE disk
               /\ UNCHANGED fileDB
          ELSE /\ fileDB' = [fileDB EXCEPT ![c.id] = NoFile]
               /\ UNCHANGED disk
    /\ deleting' = [deleting EXCEPT ![k].pc = "resume"]
    /\ lastOp' = Op("handleDeleteSession", deleting[k].id, TRUE, "backend")
    /\ UNCHANGED <<sessions, currentSessionId, currentFile, lsSessions, lsLastId,
                   perm>>
    /\ DeleteFrame

\* the handler after its await: part_001:608-617
deleteResume(k) ==
    /\ deleting[k].pc = "resume"
    /\ LET c == deleting[k]
           newSessions == SelectSeqBy(c.sessions, IdsOf(c.sessions) \ {c.id})
           b1 == [Cur EXCEPT !.sessions = newSessions]
       IN /\ (c.cur = c.id /\ Draws(newSessions)) => CanDraw
          /\ IF c.cur = c.id
             THEN Adopt(SelectFirstOrCreate(b1, c.cst, dirHandleRef, newSessions,
                                            nextId, now))
             ELSE Adopt(b1)
    /\ deleting' = [deleting EXCEPT ![k].pc = "done"]
    /\ AutoSaveFor(settings.storageType)
    /\ lastOp' = Op("handleDeleteSession", deleting[k].id, TRUE, "resume")
    /\ DeleteFrame

\* saveSessionToDirectory: getDirectoryHandle('sessions', { create: true })
saveStepSessions(i) ==
    /\ writes[i].pc = "open"
    /\ disk' = [disk EXCEPT !["D1"].hasSessions = TRUE]
    /\ writes' = [writes EXCEPT ![i].pc = "folder"]
    /\ lastOp' = Op("saveSessionToDirectory", writes[i].session.id, TRUE, "sessions")
    /\ OverlapFrame

\* saveSessionToDirectory: getDirectoryHandle(session.id, { create: true })
saveStepFolder(i) ==
    /\ writes[i].pc = "folder"
    /\ disk' = [disk EXCEPT !["D1"] = saveOpenFolder(@, writes[i].session)]
    /\ writes' = [writes EXCEPT ![i].pc = "chat"]
    /\ lastOp' = Op("saveSessionToDirectory", writes[i].session.id, TRUE, "folder")
    /\ OverlapFrame

\* the folder of call i is there
HasFolder(i) == writes[i].session.id \in DOMAIN disk["D1"].folders

\* a file step of a call whose folder was removed: getFileHandle on the
\* handle of a directory that is gone raises NotFoundError
saveStepGone(i) ==
    /\ writes[i].pc \in {"chat", "pdf"}
    /\ ~HasFolder(i)
    /\ saveStepFails(i, FALSE)

NextDeleteRace ==
    \/ \E session \in CodecSessions : persistBegin(session)
    \/ \E i \in DOMAIN writes : saveStepSessions(i)
    \/ \E i \in DOMAIN writes : saveStepFolder(i)
    \/ \E i \in DOMAIN writes : HasFolder(i) /\ saveStepChat(i)
    \/ \E i \in DOMAIN writes : HasFolder(i) /\ saveStepPdf(i)
    \/ \E i \in DOMAIN writes : saveStepGone(i)
    \/ \E id \in Ids : deleteBegin(id)
    \/ \E k \in DOMAIN deleting : deleteBackend(k)
    \/ \E k \in DOMAIN deleting : deleteResume(k)

SpecDeleteRace == InitCodec /\ [][NextDeleteRace]_vars

\* the application with handleDeleteSession split at its await: the other
\* handlers run while the backend delete is awaited
NextDeleteAwait ==
    \/ init("ok", "ok", "granted", "ok")
    \/ newSession
    \/ \E id \in Ids : selectSession(id)
    \/ \E file \in Files : handleFileUpload(file)
    \/ \E msg \in Contents : addMessageToCurrentSession(msg)
    \/ \E data \in BackupFiles(1) : handleImportData(data)
    \/ switchModeBrowser
    \/ \E d \in FirstDir : \E order \in Orders(DOMAIN disk[d].folders) :
          switchModeLocalPicks(d, order)
    \/ \E id \in Ids : deleteBegin(id)
    \/ \E k \in DOMAIN deleting : deleteBackend(k)
    \/ \E k \in DOMAIN deleting : deleteResume(k)

SpecDeleteAwait == Init /\ [][NextDeleteAwait]_vars

(***************************************************************************)
(* Properties                                                              *)
(***************************************************************************)
SetOf(list) == {list[i] : i \in 1..Len(list)}

\* the sessions a directory holds: what loadFromDirectory reads from folders
OnDisk(folders) == UNION {SetOf(ReadFolder(n, folders[n])) : n \in DOMAIN folders}

\* C1: when the mode is switched from embedded to directory d and the
\* switch succeeds, every embedded session that has a message and a document
\* is afterwards stored in d: sessions/<id>/chat.json carries its title and
\* its messages, and sessions/<id>/document.pdf is its document.
C1_SwitchToDirectoryMigrates ==
    [][(settings.storageType = "browser" /\ lastOp'.op = "switchModeLocal"
        /\ lastOp'.ok)
       => \A i \in 1..Len(sessions) :
            (sessions[i].messages # <<>> /\ fileDB[sessions[i].id] # NoFile)
            => LET d == lastOp'.why
                   id == sessions[i].id
               IN /\ id \in DOMAIN disk'[d].folders
                  /\ disk'[d].folders[id].chat # <<>>
                  /\ disk'[d].folders[id].chat[1].title = sessions[i].title
                  /\ disk'[d].folders[id].chat[1].messages = sessions[i].messages
                  /\ disk'[d].folders[id].pdf = fileDB[id]]_vars

\* C2: a load that follows saveSessionToDirectory(S) returns exactly one
\* session with S.id; its id, title, messages, summary, pdfName and
\* lastUpdated are those of S, and it has a document exactly when S had one,
\* in which case the document is S's.
C2_SaveLoadRoundTrip ==
    (lastOp.op = "loadFromDirectory" /\ codec.saved # <<>>)
    => LET s == codec.saved[1]
           hits == {i \in 1..Len(codec.loaded) : codec.loaded[i].id = s.id}
       IN /\ Cardinality(hits) = 1
          /\ \A i \in hits :
                /\ StripFile(codec.loaded[i]) = StripFile(s)
                /\ (codec.loaded[i].file # NoFile) <=> (s.file # NoFile)
                /\ s.file # NoFile => codec.loaded[i].file = s.file

\* what the embedded store and directory d hold of session x
InEmbedded(list, fdb, x) == x \in IdsOf(list) \/ fdb[x] # NoFile
InDirectory(tree, x) == x \in DOMAIN tree.folders

C4_SwitchToEmbeddedLeavesDirectory ==
    [][switchModeBrowser => disk' = disk]_vars

\* C5: directory d holds sessions; the mode goes from directory to embedded
\* and at once back to directory d.  Then the in-memory sessions are the
\* sessions d held before the first switch, and d's sessions/ is as before.
C5_RoundTripReproducesDirectory ==
    (lastOp.op = "switchModeLocal" /\ lastOp.ok /\ lastOp.prev.dir # NoHandle
     /\ lastOp.prev.folders # NoFolders)
    => /\ SetOf(sessions) = OnDisk(lastOp.prev.folders)
       /\ disk[lastOp.prev.dir].folders = lastOp.prev.folders

\* C6: when handleChangeStorageMode('local') ends at the picker (no
\* showDirectoryPicker, the user cancels, or the host raises a security
\* error) it returns false, and the mode, the settings, the session list,
\* the selection, the directory handle and every store are as before.
C6_PickerFailureChangesNothing ==
    [][(lastOp'.op = "switchModeLocal" /\ lastOp'.why \in PickerFailures)
       => /\ lastOp'.ok = FALSE
          /\ UNCHANGED <<settings, sessions, currentSessionId, needsPermission,
                         dirHandleRef, currentFile, lsSettings, lsSessions,
                         lsLastId, fileDB, handleDB, disk, perm>>]_vars

\* C6 happens: the picker was cancelled while browser mode showed a session
C6_Witness ==
    /\ lastOp.op = "switchModeLocal"
    /\ lastOp.why = "AbortError"
    /\ ~lastOp.ok
    /\ settings.storageType = "browser"
    /\ Len(sessions) > 0
    /\ currentSessionId # NoId

\* a folder of sessions/ whose chat.json exists and parses
ValidFolder(f) == f.chat # <<>> /\ ~f.bad

\* C7: loadFromDirectory returns one session for every folder whose
\* chat.json exists and parses, built from that folder, and none for a
\* folder whose chat.json is missing or unparsable; the load itself
\* succeeds.
C7_LoadSkipsBrokenFolders ==
    lastOp.op = "loadFromDirectory"
    => LET folders == disk["D1"].folders
           valid == {n \in DOMAIN folders : ValidFolder(folders[n])}
       IN /\ lastOp.ok
          /\ Len(codec.loaded) = Cardinality(valid)
          /\ SetOf(codec.loaded) =
                {[folders[n].chat[1] EXCEPT !.id = n, !.file = folders[n].pdf] :
                    n \in valid}

\* C7 happens: a load over a directory that holds a folder without chat.json,
\* a folder with an unparsable chat.json and a valid folder returned the
\* valid one
C7_Witness ==
    /\ lastOp.op = "loadFromDirectory"
    /\ \E n \in DOMAIN disk["D1"].folders :
          disk["D1"].folders[n].bad \/ disk["D1"].folders[n].chat = <<>>
    /\ \E n \in DOMAIN disk["D1"].folders :
          ValidFolder(disk["D1"].folders[n]) /\ n \in IdsOf(codec.loaded)

\* the ids of the sessions the active backend holds
Persisted ==
    IF settings.storageType = "browser" THEN IdsOf(lsSessions)
    ELSE DOMAIN disk[dirHandleRef].folders

\* C8: once startup is over, and in directory mode with the directory
\* readable and writable, the ids of the in-memory list are the ids the
\* active backend holds.
C8_MemoryMirrorsBackend ==
    (/\ phase = "running"
     /\ settings.storageType = "local" =>
           /\ dirHandleRef # NoHandle
           /\ perm[dirHandleRef] = "granted"
           /\ ~needsPermission)
    => IdsOf(sessions) = Persisted

\* C9: handleImportData(data) appends to the list the sessions of data whose
\* id the list does not hold, in the order of data, leaves the sessions that
\* were there as they were, and makes the list longer by the number of new
\* ids in data.
C9_ImportAddsNewIds ==
    [][\A data \in BackupFiles(MaxImport) :
          handleImportData(data)
          => LET new == IdsOf(data) \ IdsOf(sessions)
             IN /\ sessions' = sessions \o SelectSeqBy(data, new)
                /\ SubSeq(sessions', 1, Len(sessions)) = sessions
                /\ Len(sessions') = Len(sessions) + Cardinality(new)]_vars

\* C10: a startup that finds directory mode persisted ends either with the
\* directory handle held, its permission granted and no permission request
\* pending, or with the permission request pending and no session listed.
C10_StartupInDirectoryMode ==
    (lastOp.op = "init" /\ settings.storageType = "local")
    => \/ /\ dirHandleRef # NoHandle
          /\ perm[dirHandleRef] = "granted"
          /\ ~needsPermission
       \/ /\ needsPermission
          /\ sessions = <<>>

\* the storage mode a page load starts from: 'ai-pdf-settings'
PersistedMode ==
    IF lsSettings = <<>> THEN DEFAULT_SETTINGS.storageType
    ELSE lsSettings[1].storageType

C12_SwitchToEmbeddedDropsHandle ==
    lastOp.op = "switchModeBrowser" => dirHandleRef = NoHandle

\* C13: after a successful handleChangeStorageMode('local') on directory d
\* the live and the stored handle are d's, d/settings.json holds the live
\* settings, which name local mode and d, and the in-memory list is what
\* loadFromDirectory(d) returns.
C13_SwitchToDirectoryResult ==
    (lastOp.op = "switchModeLocal" /\ lastOp.ok)
    => LET d == lastOp.why
       IN /\ dirHandleRef = d
          /\ handleDB = d
          /\ disk[d].settingsJson = <<settings>>
          /\ settings.storageType = "local"
          /\ settings.localDirectoryName = d
          /\ \E order \in Orders(DOMAIN disk[d].folders) :
                sessions = LoadSessions(disk[d], order)

\* C14: the sessions loadFromDirectory returns are in descending order of
\* lastUpdated, in whatever order the folders were enumerated.
C14_LoadSortedDescending ==
    lastOp.op = "loadFromDirectory"
    => \A i, j \in 1..Len(codec.loaded) :
          i < j => codec.loaded[i].lastUpdated >= codec.loaded[j].lastUpdated

\* C14 happens: the folders were enumerated oldest first and the load
\* returned the newest first
C14_Witness ==
    /\ lastOp.op = "loadFromDirectory"
    /\ Len(codec.order) = 2
    /\ Len(codec.loaded) = 2
    /\ codec.loaded[1].lastUpdated > codec.loaded[2].lastUpdated
    /\ codec.loaded[1].id = codec.order[2]
    /\ codec.loaded[2].id = codec.order[1]

\* C15: every session loadFromDirectory returns carries the name of its
\* folder as id and the rest of that folder's chat.json, also when
\* chat.json holds another id; no two returned sessions share an id.
C15_FolderNameIsId ==
    lastOp.op = "loadFromDirectory"
    => LET folders == disk["D1"].folders
           loaded == codec.loaded
       IN /\ \A n \in DOMAIN folders :
                ValidFolder(folders[n])
                => \E i \in 1..Len(loaded) :
                      /\ loaded[i].id = n
                      /\ StripFile(loaded[i]) = [folders[n].chat[1] EXCEPT !.id = n]
          /\ \A i, j \in 1..Len(loaded) : i # j => loaded[i].id # loaded[j].id

\* C15 happens: a folder whose chat.json holds another id was loaded under
\* the folder's name
C15_Witness ==
    /\ lastOp.op = "loadFromDirectory"
    /\ \E n \in DOMAIN disk["D1"].folders :
          /\ ValidFolder(disk["D1"].folders[n])
          /\ disk["D1"].folders[n].chat[1].id # n
          /\ n \in IdsOf(codec.loaded)
    /\ Len(codec.loaded) = 2

\* C16: verifyPermission raises nothing; it returns true when the silent
\* query yields granted, otherwise calls requestPermission and returns true
\* when that yields granted, and returns false in every other case, also
\* when queryPermission or requestPermission raises.
C16_VerifyPermissionTotal ==
    lastOp.check.query # "none"
    => /\ ~lastOp.check.threw
       /\ lastOp.check.granted <=>
             \/ lastOp.check.query = "granted"
             \/ lastOp.check.query = "prompt" /\ lastOp.check.request = "granted"
       /\ lastOp.check.request # "none" <=> lastOp.check.query = "prompt"

\* C16 happens: the query found no permission and requestPermission raised
C16_Witness ==
    /\ lastOp.op = "requestPermission"
    /\ lastOp.check.query = "prompt"
    /\ lastOp.check.request = "error"
    /\ ~lastOp.check.granted
    /\ needsPermission

\* C17: when loadFromDirectory raises at directory level, the operation
\* that called it (startup, re-grant or the switch to local mode) reports
\* the failure and leaves the in-memory session list and the current
\* selection as they were.
C17_LoadFailureKeepsList ==
    [][lastOp'.why = "load-failed"
       => /\ ~lastOp'.ok
          /\ sessions' = sessions
          /\ currentSessionId' = currentSessionId]_vars

\* C17 happens: browser mode showed a session when the load of the picked
\* directory raised
C17_Witness ==
    /\ lastOp.op = "switchModeLocal"
    /\ lastOp.why = "load-failed"
    /\ settings.storageType = "browser"
    /\ Len(sessions) > 0
    /\ currentSessionId \in IdsOf(sessions)

\* C18: deleteSessionFromDirectory(root, id) completes without an error;
\* when sessions/ or sessions/<id>/ does not exist the tree is as before,
\* and when the folder exists it is removed with chat.json and document.pdf
\* while every other folder, sessions/ and settings.json are as before.
C18_DeleteToleratesAbsence ==
    [][lastOp'.op = "deleteSessionFromDirectory"
       => LET id == lastOp'.id
              old == disk["D1"]
              new == disk'["D1"]
          IN /\ lastOp'.ok
             /\ (~old.hasSessions \/ id \notin DOMAIN old.folders) => new = old
             /\ id \notin DOMAIN new.folders
             /\ DOMAIN new.folders = DOMAIN old.folders \ {id}
             /\ \A n \in DOMAIN new.folders : new.folders[n] = old.folders[n]
             /\ new.hasSessions = old.hasSessions
             /\ new.settingsJson = old.settingsJson]_vars

\* C18 happens: a delete ran on a directory that has no sessions/
C18_Witness ==
    /\ lastOp.op = "deleteSessionFromDirectory"
    /\ ~disk["D1"].hasSessions
    /\ disk["D1"].folders = NoFolders

\* C19: when two saveSessionToDirectory calls for the same session id were
\* in flight together and both have finished, the folder sessions/<id>/
\* (chat.json together with document.pdf) is what one of the two sessions
\* saved alone would have left, not chat.json of one and document.pdf of
\* the other.
SavedAlone(session) == Folder(<<StripFile(session)>>, FALSE, session.file)
C19_OverlapMatchesOneSnapshot ==
    \A i \in DOMAIN writes : \A j \in DOMAIN writes :
        LET id == writes[i].session.id
            same == {k \in DOMAIN writes : writes[k].session.id = id}
        IN (/\ i \in writes[j].with
            /\ writes[j].session.id = id
            /\ \A k \in same : writes[k].pc = "done")
           => disk["D1"].folders[id] \in {SavedAlone(writes[k].session) : k \in same}

\* C20: a step that ends in directory mode and is either the startup or a
\* step taken in directory mode leaves localStorage 'ai-pdf-sessions' as it
\* was, so the list that a later switch to browser mode loads is the list
\* stored when directory mode began.
C20_DirectoryModeKeepsEmbeddedList ==
    [][(/\ settings'.storageType = "local"
        /\ (settings.storageType = "local" \/ lastOp'.op = "init"))
       => lsSessions' = lsSessions]_vars

\* C21: a step in which createNewSession runs (the list's first entry has an
\* id that nothing held before) puts a blank session at the front and
\* selects it; when the mode after the step is directory, with a handle whose
\* permission is granted, sessions/<id>/chat.json holds that session; when
\* the mode after the step is browser, the step writes nothing to a
\* directory.
Created ==
    /\ sessions' # <<>>
    /\ sessions'[1].id \notin InUse
    /\ lastOp'.op # "handleImportData"
C21_CreateNewSession ==
    [][Created =>
         LET new == sessions'[1]
         IN /\ new = ChatSession(new.id, NewTitle, <<>>, NoName, NoFile, "", now)
            /\ currentSessionId' = new.id
            /\ (/\ settings'.storageType = "local"
                /\ dirHandleRef' # NoHandle
                /\ perm'[dirHandleRef'] = "granted")
               => /\ new.id \in DOMAIN disk'[dirHandleRef'].folders
                  /\ disk'[dirHandleRef'].folders[new.id].chat = <<StripFile(new)>>
            /\ settings'.storageType = "browser" => disk' = disk]_vars

\* C22: a handler that updates a session (document attach, summary set,
\* message append, message edit, regenerate) leaves the list's ids in place,
\* sets that session's lastUpdated to the time of the update, which is not
\* below its value before, and changes no other session's lastUpdated.
Updates ==
    {"handleFileUpload", "handleTextExtracted", "handleSendMessage",
     "handleEditMessage", "handleRegenerate"}
C22_UpdateBumpsLastUpdated ==
    [][(lastOp'.op \in Updates /\ lastOp'.id \in IdsOf(sessions))
       => /\ Len(sessions') = Len(sessions)
          /\ \A i \in 1..Len(sessions) :
                /\ sessions'[i].id = sessions[i].id
                /\ sessions'[i].lastUpdated >= sessions[i].lastUpdated
                /\ sessions[i].id = lastOp'.id => sessions'[i].lastUpdated = now
                /\ sessions[i].id # lastOp'.id
                     => sessions'[i].lastUpdated = sessions[i].lastUpdated]_vars

\* C23: in directory mode with a granted handle, after a handler that updates
\* a session (with every write it issued completed) sessions/<id>/chat.json
\* holds the in-memory session without its file.
C23_UpdateIsSaved ==
    [][(/\ lastOp'.op \in Updates
        /\ lastOp'.id \in IdsOf(sessions)
        /\ settings.storageType = "local"
        /\ dirHandleRef # NoHandle
        /\ perm[dirHandleRef] = "granted")
       => LET id == lastOp'.id
              folders == disk'[dirHandleRef].folders
          IN /\ id \in DOMAIN folders
             /\ folders[id].chat = <<StripFile(Find(sessions', id)[1])>>]_vars

\* C24: while the application runs in browser mode, localStorage
\* 'ai-pdf-sessions' holds the in-memory list, in its order, each session
\* without its file.
C24_EmbeddedListMirrorsMemory ==
    (phase = "running" /\ settings.storageType = "browser")
        => lsSessions = StripAll(sessions)
C24_Witness ==
    /\ phase = "running" /\ settings.storageType = "browser"
    /\ lastOp.op = "handleDeleteSession"
    /\ Len(sessions) = 1
    /\ sessions[1].file # NoFile
    /\ sessions[1].messages # <<>>
    /\ lsSessions = <<StripFile(sessions[1])>>

C27_RegrantLeavesNeedsPermission ==
    [][/\ (lastOp'.op = "requestPermission" /\ lastOp'.ok)
          => /\ lastOp'.check.granted
             /\ settings'.storageType = "local"
             /\ ~needsPermission'
             /\ \E order \in Orders(DOMAIN disk'[dirHandleRef].folders) :
                   sessions' = LoadSessions(disk'[dirHandleRef], order)
       /\ (lastOp'.op = "requestPermission" /\ lastOp'.why = "denied")
          => /\ settings' = settings
             /\ needsPermission'
             /\ sessions' = sessions
       /\ (/\ needsPermission /\ ~needsPermission'
           /\ settings.storageType = "local" /\ settings'.storageType = "local")
          => lastOp'.op = "requestPermission" /\ lastOp'.ok]_vars
\* a re-grant that loaded a session with its document
C27_Witness ==
    /\ lastOp.op = "requestPermission" /\ lastOp.ok
    /\ lastOp.check.request = "granted"
    /\ ~needsPermission
    /\ sessions # <<>>
    /\ sessions[1].file # NoFile

\* C29: handleFileUpload on a current session of the list stores the
\* document: in browser mode IndexedDB 'files' holds it under the session's
\* id, in directory mode with a granted handle sessions/<id>/document.pdf
\* is that document.
C29_UploadSavesPayload ==
    [][(lastOp'.op = "handleFileUpload" /\ lastOp'.id \in IdsOf(sessions))
       => LET id == lastOp'.id
              file == lastOp'.why
          IN /\ Find(sessions', id)[1].file = file
             /\ settings.storageType = "browser" => fileDB'[id] = file
             /\ (/\ settings.storageType = "local"
                 /\ dirHandleRef # NoHandle
                 /\ perm[dirHandleRef] = "granted")
                => /\ id \in DOMAIN disk'[dirHandleRef].folders
                   /\ disk'[dirHandleRef].folders[id].pdf = file]_vars
\* an upload in directory mode onto a session that had no folder yet
C29_Witness ==
    /\ lastOp.op = "handleFileUpload"
    /\ settings.storageType = "local"
    /\ dirHandleRef # NoHandle
    /\ lastOp.id \in DOMAIN disk[dirHandleRef].folders
    /\ disk[dirHandleRef].folders[lastOp.id].pdf = lastOp.why
    /\ fileDB[lastOp.id] = NoFile

\* C30: a click on a session (handleSelectSession) leaves every store of
\* session data as it was: localStorage 'ai-pdf-sessions', IndexedDB 'files'
\* and the directories; of the stores only 'ai-pdf-last-session-id' changes,
\* to the id selected.
C30_SelectionPersistsNothing ==
    [][lastOp'.op = "handleSelectSession"
       => /\ lsSessions' = lsSessions
          /\ fileDB' = fileDB
          /\ disk' = disk
          /\ lsSettings' = lsSettings
          /\ handleDB' = handleDB
          /\ lsLastId' = lastOp'.id
          /\ currentSessionId' = lastOp'.id]_vars
\* a selection in browser mode that fetched the session's document from
\* IndexedDB into the in-memory list
C30_Witness ==
    /\ lastOp.op = "handleSelectSession"
    /\ settings.storageType = "browser"
    /\ Len(sessions) = 2
    /\ currentFile # NoFile
    /\ fileDB[lastOp.id] = currentFile
    /\ lsLastId = lastOp.id

\* C28: a step of saveSessionToDirectory or saveSettingsToDirectory that
\* raises is caught inside the call: the call does not raise to its caller,
\* the in-memory list stays as it is (the snapshot is not rolled back), and
\* the folders of the other sessions stay as they are.  A save of the same
\* session that is issued after the failed one has ended, and completes,
\* leaves sessions/<id>/ as that later snapshot.
C28_FailedSaveIsContained ==
    /\ [][lastOp'.ok = FALSE
          => /\ \A i \in DOMAIN writes' : ~writes'[i].raised
             /\ sessions' = sessions
             /\ disk'["D1"].folders = disk["D1"].folders
             /\ disk'["D1"].settingsJson = disk["D1"].settingsJson]_vars
    /\ [](\A j \in DOMAIN writes :
            LET id == writes[j].session.id
                others == {k \in DOMAIN writes \ {j} : writes[k].session.id = id}
            IN (/\ writes[j].pc = "done"
                /\ \A k \in others : /\ k < j
                                     /\ k \notin writes[j].with
                                     /\ writes[k].pc \in {"done", "failed"})
               => /\ disk["D1"].folders[id] = SavedAlone(writes[j].session)
                  /\ Find(sessions, id) = <<writes[j].session>>)
\* a save that failed after chat.json was written, then a later save of the
\* same session that completed
C28_Witness ==
    /\ Len(writes) = 2
    /\ writes[1].session.id = writes[2].session.id
    /\ writes[1].session # writes[2].session
    /\ writes[1].pc = "failed"
    /\ writes[2].pc = "done"
    /\ writes[2].with = {}
    /\ disk["D1"].folders[writes[2].session.id] = SavedAlone(writes[2].session)

\* C25: the saveSessionToDirectory calls for a session are issued in the
\* order of the changes of the list: a call issued later does not carry a
\* snapshot that was taken from an earlier version of the list.
C25_SavesIssuedInMutationOrder ==
    \A i \in DOMAIN pending.issued : \A j \in DOMAIN pending.issued :
        (i < j /\ pending.issued[i].id = pending.issued[j].id)
            => pending.issued[i].version <= pending.issued[j].version

\* C31: when a step selects, in browser mode, a session that names a document
\* whose payload is not in memory, the payload is fetched from IndexedDB by
\* the session's id: if the store has it, it becomes the session's file and
\* the document shown; if the store has no entry or the fetch fails, no
\* document is shown, nothing is raised, and the list stays as it was.
Selecting ==
    {"handleSelectSession", "switchModeBrowser", "init", "handleDeleteSession"}
C31_EvictedPayloadDegrades ==
    [][(/\ lastOp'.op \in Selecting
        /\ settings'.storageType = "browser"
        /\ currentSessionId' # currentSessionId \/ lastOp'.op = "handleSelectSession"
        /\ Find(sessions', currentSessionId') # <<>>
        /\ Find(sessions', currentSessionId')[1].pdfName # NoName)
       => LET s == Find(sessions', currentSessionId')[1]
          IN /\ lastOp'.ok
             /\ IF fileDB[s.id] # NoFile /\ lastOp'.why # "fetch-failed"
                THEN s.file = fileDB[s.id] /\ currentFile' = fileDB[s.id]
                ELSE /\ currentFile' = s.file
                     /\ lastOp'.op = "handleSelectSession" => sessions' = sessions
             /\ lastOp'.op = "handleSelectSession"
                   => StripAll(sessions') = StripAll(sessions)]_vars

\* C32: when handleDeleteSession(X) has finished, and every
\* saveSessionToDirectory call for X was issued before the click and has
\* ended, the folder sessions/X does not exist.
C32_DeleteIsFinal ==
    \A k \in DOMAIN deleting :
        (/\ deleting[k].pc = "done"
         /\ \A i \in DOMAIN writes :
               writes[i].session.id = deleting[k].id
                 => i \in deleting[k].after /\ writes[i].pc \in {"done", "failed"})
        => deleting[k].id \notin DOMAIN disk["D1"].folders

\* C33: when handleDeleteSession(X) completes, every session other than X
\* that the list held just before, the sessions created, imported or updated
\* during the await included, is still in the list with the same content.
C33_DeleteRemovesOnlyX ==
    [][(lastOp'.op = "handleDeleteSession" /\ lastOp'.why = "resume")
       => \A i \in DOMAIN sessions :
             sessions[i].id # lastOp'.id
               => \E j \in DOMAIN sessions' :
                     /\ StripFile(sessions'[j]) = StripFile(sessions[i])
                     /\ sessions[i].file # NoFile
                           => sessions'[j].file = sessions[i].file]_vars

\* C34: after a successful handleChangeStorageMode the stores a page load
\* starts from name the mode switched to ('ai-pdf-settings'), and for local
\* mode the stored handle is that of the directory picked, so that the next
\* init comes up in that mode without a Save of the settings dialog.
C34_ModeSurvivesRestart ==
    [][/\ lastOp'.op = "switchModeBrowser" => PersistedMode' = "browser"
       /\ (lastOp'.op = "switchModeLocal" /\ lastOp'.ok)
          => PersistedMode' = "local" /\ handleDB' = dirHandleRef']_vars


\* C35: a handleChangeStorageMode('local') that is invoked in local mode and
\* fails, whether no directory is picked or storing the handle or loading
\* the picked directory raises, leaves dirHandleRef.current and the stored
\* handle as they were.
C35_FailedSwitchKeepsHandle ==
    [][(/\ lastOp'.op = "switchModeLocal" /\ ~lastOp'.ok
        /\ settings.storageType = "local" /\ dirHandleRef # NoHandle)
       => dirHandleRef' = dirHandleRef /\ handleDB' = handleDB]_vars

\* C36: whenever currentSessionId is not null it is the id of a session of
\* the in-memory list.
C36_SelectionInList ==
    currentSessionId # NoId => currentSessionId \in IdsOf(sessions)

\* C37: the ids of the sessions of the in-memory list are pairwise distinct.
C37_IdsDistinct ==
    \A i \in DOMAIN sessions : \A j \in DOMAIN sessions :
        sessions[i].id = sessions[j].id => i = j


====
